---- MODULE Spec2Model ----
(***************************************************************************)
(* Model of the Raahi assistant backend (hawkaii/raahi-assistant):         *)
(*   - app/utils/merge_utils.py      merge_and_deduplicate                 *)
(*   - app/services/audio_config_service.py  AudioConfigService.get_url    *)
(*   - app/services/geocoding_service.py     get_city_coordinates_with_... *)
(*   - app/services/typesense_service.py     search_trips / search_leads   *)
(*   - app/api/routes.py             _process_intent (the dispatcher)      *)
(*                                                                         *)
(* Encoding of Python values:                                              *)
(*   Optional[T]  : <<>> is None, <<x>> is the value x                     *)
(*   str that is stripped or tested for blankness : a sequence of          *)
(*                  one-character strings ("" is <<>>)                     *)
(*   list         : a sequence                                             *)
(*   dict with insertion order : a sequence of entries                     *)
(***************************************************************************)
EXTENDS Integers, Sequences, FiniteSets, TLC

VARIABLES
    \* ---- merge_and_deduplicate called on its own (SpecMerge)
    results_lists,      \* the argument: a list of batches
    merged,             \* the returned list
    m_pc,               \* "input" before the call, "done" after it
    \* ---- one request going through _process_intent (Spec)
    pc,                 \* position of the coroutine in _process_intent
    request,            \* the AssistantRequest
    config,             \* AudioConfigService._config
    intent_result,      \* what gemini.classify_and_respond returned
    pickup_coordinates, \* local of _process_intent
    pickup_country,     \* local of _process_intent
    drop_country,       \* local of _process_intent
    used_geo,           \* local of _process_intent
    search_tasks,       \* the awaitables handed to asyncio.gather
    search_results,     \* gather's result list, filled as tasks complete
    completed_early,    \* history: the geo tasks that completed before their text task
    all_trips,          \* local of _process_intent
    all_leads,          \* local of _process_intent
    classifier_calls,   \* number of gemini.classify_and_respond calls
    geocode_calls,      \* the cities passed to the geocoder, in call order
    background_tasks,   \* BackgroundTasks: the scheduled log_search calls
    response,           \* the AssistantResponse returned, None while running
    log_results,        \* what each background log_search call did, in run order
    session_key,        \* the session_id passed to classify_and_respond, None before the call
    \* ---- AudioConfigService.get_url called on its own (SpecAudio)
    sel_config,         \* self._config
    sel_intent,         \* the intent argument
    sel_count,          \* the interaction_count argument
    sel_url,            \* the returned URL
    sel_pc,             \* "input" before the call, "done" after it
    \* ---- the classifier's session store under concurrent calls (SpecSession)
    sessions,           \* GeminiService._sessions: history per session id
    calls,              \* the classify_and_respond calls, in start order
    finished,           \* history: the calls that returned, in that order
    cleared,            \* history: the clear_session calls, in order
    removed,            \* history: per session id, the turns a clear deleted
    \* ---- the two query endpoints over one pipeline outcome (SpecEndpoint)
    pipeline,           \* what _process_intent does: returns a Response or raises
    plain_result,       \* what POST /query answered, None before
    stream_result,      \* what POST /query-with-audio answered, None before
    stream_chunks,      \* the chunks stream_response has yielded
    stream_pc,          \* position of the stream_response generator
    \* ---- the audio cache and GET /audio/{cache_key} (SpecCache)
    cache,              \* the Redis store: bytes per key, None when absent
    last_set,           \* history: per key, the bytes of the latest successful set
    expired,            \* history: per key, whether that set has expired since
    fetched,            \* what the latest GET /audio/{cache_key} answered
    cache_ops,          \* number of cache operations so far
    \* ---- search_trips / search_leads called on their own (SpecSearch)
    search_args,        \* the arguments of the call
    collection,         \* the documents of the collection, oldest first
    search_params,      \* the search_params sent, None before the call
    search_returned,    \* the list returned
    search_pc,          \* "input" before the call, "done" after it
    \* ---- combine_trips_and_leads called on its own (SpecCombine)
    combine_trips,      \* the trips argument
    combine_leads,      \* the leads argument
    combine_result,     \* what the call did: the list returned, or raised
    combine_pc,         \* "input" before the call, "done" after it
    \* ---- AudioConfigService constructed and reloaded (SpecLoad)
    audio_file,         \* the configuration file as it is now
    service_config,     \* self._config, None before construction
    config_before,      \* self._config before the last load
    loaded_from,        \* the file the last load read, None before construction
    load_kind,          \* "none", "construct" or "reload": the last load
    load_raised,        \* an exception escaped construction or reload
    \* ---- merge_and_deduplicate called on two batches in both orders (SpecPair)
    batch_a,            \* the batch A
    batch_b,            \* the batch B
    pair_merged,        \* what merge returned for [A, B], [B, A], [B] and [B, B]
    pair_pc             \* "input" before the calls, "done" after them

mergeVars == <<results_lists, merged, m_pc>>
reqVars == <<pc, request, config, intent_result, pickup_coordinates,
             pickup_country, drop_country, used_geo, search_tasks,
             search_results, completed_early, all_trips, all_leads,
             classifier_calls, geocode_calls, background_tasks, response,
             log_results, session_key>>
audioVars == <<sel_config, sel_intent, sel_count, sel_url, sel_pc>>
sessVars == <<sessions, calls, finished, cleared, removed>>
endpointVars == <<pipeline, plain_result, stream_result, stream_chunks,
                  stream_pc>>
cacheVars == <<cache, last_set, expired, fetched, cache_ops>>
searchVars == <<search_args, collection, search_params, search_returned, search_pc>>
combineVars == <<combine_trips, combine_leads, combine_result, combine_pc>>
loadVars == <<audio_file, service_config, config_before, loaded_from, load_kind, load_raised>>
pairVars == <<batch_a, batch_b, pair_merged, pair_pc>>
vars == <<mergeVars, reqVars, audioVars, sessVars, endpointVars, cacheVars, searchVars, combineVars, loadVars, pairVars>>

\* what the steps of one specification leave alone: the state of the others
restOfMerge == <<reqVars, audioVars, sessVars, endpointVars, cacheVars, searchVars, combineVars, loadVars, pairVars>>
restOfReq == <<mergeVars, audioVars, sessVars, endpointVars, cacheVars, searchVars, combineVars, loadVars, pairVars>>
restOfAudio == <<mergeVars, reqVars, sessVars, endpointVars, cacheVars, searchVars, combineVars, loadVars, pairVars>>
restOfSess == <<mergeVars, reqVars, audioVars, endpointVars, cacheVars, searchVars, combineVars, loadVars, pairVars>>
restOfEndpoint == <<mergeVars, reqVars, audioVars, sessVars, cacheVars, searchVars, combineVars, loadVars, pairVars>>
restOfCache == <<mergeVars, reqVars, audioVars, sessVars, endpointVars, searchVars, combineVars, loadVars, pairVars>>
restOfSearch == <<mergeVars, reqVars, audioVars, sessVars, endpointVars, cacheVars, combineVars, loadVars, pairVars>>
restOfCombine == <<mergeVars, reqVars, audioVars, sessVars, endpointVars, cacheVars, searchVars, loadVars, pairVars>>
restOfLoad == <<mergeVars, reqVars, audioVars, sessVars, endpointVars, cacheVars, searchVars, combineVars, pairVars>>
restOfPair == <<mergeVars, reqVars, audioVars, sessVars, endpointVars, cacheVars, searchVars, combineVars, loadVars>>

----------------------------------------------------------------------------
(* Bounds of the model *)

\* most batches in one call of merge_and_deduplicate on its own
MaxBatches == 2
\* most records, over all batches, in one call of merge_and_deduplicate
MaxRecords == 3
\* most documents one search task returns
MaxHits == 1
\* largest interaction count passed to get_url on its own
MaxInteractionCount == 6
\* most classify_and_respond calls in one run of the session store
MaxCalls == 2
\* most clear_session calls in one run of the session store
MaxClears == 1
\* longest text field of a Response
MaxText == 2
\* most operations on the audio cache in one run
MaxCacheOps == 3
\* most documents in the collection a search runs on
MaxDocs == 2
\* most trips, and most leads, passed to combine_trips_and_leads
MaxDuties == 2
\* most records in each of the two batches merged in both orders
MaxBatchLen == 2

----------------------------------------------------------------------------
(* Python values *)

None == <<>>
Some(x) == <<x>>
IsNone(o) == o = <<>>
Val(o) == o[1]

\* bool(x) of an Optional[str] whose string is a TLA+ string
TruthyId(o) == o # None /\ Val(o) # ""
\* bool(x) of an Optional[str] whose string is a sequence of characters
Truthy(o) == o # None /\ Val(o) # <<>>

IsSpace(c) == c = " "

RECURSIVE LStrip(_)
LStrip(s) == IF s # <<>> /\ IsSpace(Head(s)) THEN LStrip(Tail(s)) ELSE s

RECURSIVE RStrip(_)
RStrip(s) ==
    IF s # <<>> /\ IsSpace(s[Len(s)]) THEN RStrip(SubSeq(s, 1, Len(s) - 1)) ELSE s

\* str.strip()
Strip(s) == RStrip(LStrip(s))

\* all sequences over S of length at most n
SeqsUpTo(S, n) == UNION {[1..k -> S] : k \in 0..n}

----------------------------------------------------------------------------
(* merge_utils.merge_and_deduplicate *)

\* document ids as the search engine may return them: absent, empty, or set
DocIds == {"a", "b"}
IdVals == {None, Some("")} \cup {Some(i) : i \in DocIds}
\* what distinguishes two documents with the same id
Payloads == {"p", "q"}
Records == [id : IdVals, payload : Payloads]

\* a batch is a list of records, or something that is not a list
ListBatch(items) == [isList |-> TRUE, items |-> items]
NotAList == [isList |-> FALSE, items |-> <<>>]

\* A plausible slip: the records are collected in a list, nothing is replaced
DictSetAppending(id_map, item) == Append(id_map, item)

\* A plausible slip: a key that is stored again moves to the end
DictSetMovingToEnd(id_map, item) ==
    Append(SelectSeq(id_map, LAMBDA r : r.id # item.id), item)

\* id_map[item_id] = item on a dict that keeps insertion order:
\* an existing key keeps its place, a new key goes last
DictSet(id_map, item) ==
    IF \E k \in 1..Len(id_map) : id_map[k].id = item.id
    THEN [k \in 1..Len(id_map) |->
              IF id_map[k].id = item.id THEN item ELSE id_map[k]]
    ELSE Append(id_map, item)

\* A plausible slip: the first occurrence of an id is kept
MergeItemFirstWins(id_map, item) ==
    IF TruthyId(item.id) /\ ~(\E k \in 1..Len(id_map) : id_map[k].id = item.id)
    THEN Append(id_map, item)
    ELSE id_map

\* A plausible slip: the id is not tested before the record is stored
MergeItemNoIdTest(id_map, item) == DictSet(id_map, item)

\* the body of the inner loop (lines 34-36)
MergeItem(id_map, item) ==
    IF TruthyId(item.id) THEN DictSet(id_map, item) ELSE id_map

\* the inner loop over one batch (line 33)
RECURSIVE MergeBatch(_, _)
MergeBatch(id_map, items) ==
    IF items = <<>> THEN id_map
    ELSE MergeBatch(MergeItem(id_map, Head(items)), Tail(items))

\* the outer loop over the batches (lines 28-31)
RECURSIVE MergeLists(_, _)
MergeLists(id_map, lists) ==
    IF lists = <<>> THEN id_map
    ELSE IF ~Head(lists).isList THEN MergeLists(id_map, Tail(lists))
    ELSE MergeLists(MergeBatch(id_map, Head(lists).items), Tail(lists))

\* merged = list(id_map.values())
merge_and_deduplicate(lists) == MergeLists(<<>>, lists)

----------------------------------------------------------------------------
(* SpecMerge: merge_and_deduplicate on every bounded list of batches *)

\* number of records held by a list of batches
RECURSIVE TotalRecords(_)
TotalRecords(lists) ==
    IF lists = <<>> THEN 0 ELSE Len(Head(lists).items) + TotalRecords(Tail(lists))

Idle ==
    /\ pc = "idle"
    /\ request = None
    /\ config = None
    /\ intent_result = None
    /\ pickup_coordinates = None
    /\ pickup_country = None
    /\ drop_country = None
    /\ used_geo = FALSE
    /\ search_tasks = <<>>
    /\ search_results = <<>>
    /\ completed_early = {}
    /\ all_trips = <<>>
    /\ all_leads = <<>>
    /\ classifier_calls = 0
    /\ geocode_calls = <<>>
    /\ background_tasks = <<>>
    /\ response = None
    /\ log_results = <<>>
    /\ session_key = None

\* merge_and_deduplicate is not called on its own
MergeUnused ==
    /\ results_lists = <<>>
    /\ merged = <<>>
    /\ m_pc = "unused"

\* get_url is not called on its own
AudioUnused ==
    /\ sel_config = None
    /\ sel_intent = None
    /\ sel_count = None
    /\ sel_url = None
    /\ sel_pc = "unused"

\* no GeminiService is in use
SessionsUnused ==
    /\ sessions = <<>>
    /\ calls = <<>>
    /\ finished = <<>>
    /\ cleared = <<>>
    /\ removed = <<>>

\* the two query endpoints over one pipeline outcome (SpecEndpoint): not in use
EndpointsUnused ==
    /\ pipeline = <<>>
    /\ plain_result = <<>>
    /\ stream_result = <<>>
    /\ stream_chunks = <<>>
    /\ stream_pc = "unused"

\* the audio cache and GET /audio/{cache_key} (SpecCache): not in use
CacheUnused ==
    /\ cache = <<>>
    /\ last_set = <<>>
    /\ expired = <<>>
    /\ fetched = <<>>
    /\ cache_ops = 0

\* search_trips / search_leads called on their own (SpecSearch): not in use
SearchUnused ==
    /\ search_args = <<>>
    /\ collection = <<>>
    /\ search_params = <<>>
    /\ search_returned = <<>>
    /\ search_pc = "unused"

\* combine_trips_and_leads called on its own (SpecCombine): not in use
CombineUnused ==
    /\ combine_trips = <<>>
    /\ combine_leads = <<>>
    /\ combine_result = <<>>
    /\ combine_pc = "unused"

\* AudioConfigService constructed and reloaded (SpecLoad): not in use
LoadUnused ==
    /\ audio_file = <<>>
    /\ service_config = <<>>
    /\ config_before = <<>>
    /\ loaded_from = <<>>
    /\ load_kind = "unused"
    /\ load_raised = FALSE

\* merge_and_deduplicate called on two batches in both orders (SpecPair): not in use
PairUnused ==
    /\ batch_a = <<>>
    /\ batch_b = <<>>
    /\ pair_merged = <<>>
    /\ pair_pc = "unused"

InitMerge ==
    /\ results_lists = <<>>
    /\ merged = <<>>
    /\ m_pc = "input"
    /\ Idle
    /\ AudioUnused
    /\ SessionsUnused
    /\ PairUnused
    /\ LoadUnused
    /\ CombineUnused
    /\ SearchUnused
    /\ CacheUnused
    /\ EndpointsUnused

\* the caller adds a batch to the argument list
AddBatch ==
    /\ m_pc = "input"
    /\ Len(results_lists) < MaxBatches
    /\ \E b \in {NotAList, ListBatch(<<>>)} :
           results_lists' = Append(results_lists, b)
    /\ UNCHANGED <<merged, m_pc>>
    /\ UNCHANGED restOfMerge

\* the caller adds a record to the last batch of the argument list
AddRecord ==
    /\ m_pc = "input"
    /\ results_lists # <<>>
    /\ results_lists[Len(results_lists)].isList
    /\ TotalRecords(results_lists) < MaxRecords
    /\ \E r \in Records :
           results_lists' =
               [results_lists EXCEPT ![Len(results_lists)].items = Append(@, r)]
    /\ UNCHANGED <<merged, m_pc>>
    /\ UNCHANGED restOfMerge

CallMerge ==
    /\ m_pc = "input"
    /\ merged' = merge_and_deduplicate(results_lists)
    /\ m_pc' = "done"
    /\ UNCHANGED <<results_lists>>
    /\ UNCHANGED restOfMerge

NextMerge == AddBatch \/ AddRecord \/ CallMerge

SpecMerge == InitMerge /\ [][NextMerge]_vars

----------------------------------------------------------------------------
(* models/schemas.py: the closed enumerations *)

IntentTypes ==
    {"entry", "get_duties", "cng_pumps", "parking", "petrol_pumps",
     "nearby_drivers", "towing", "toilets", "taxi_stands", "auto_parts",
     "car_repair", "hospital", "police_station", "end", "generic"}

UIActions ==
    {"entry", "show_duties_list", "show_cng_stations", "show_petrol_stations",
     "show_parking", "show_nearby_drivers", "show_towing", "show_toilets",
     "show_taxi_stands", "show_auto_parts", "show_car_repair", "show_hospital",
     "show_police_station", "show_map", "show_end", "none"}

\* AssistantResponse as _process_intent builds it: response_text is always "",
\* audio_cached False and cache_key ""
AssistantResponse(session_id, intent, ui_action, data, audio_url, query, counts) ==
    [session_id |-> session_id,
     success |-> TRUE,
     intent |-> intent,
     ui_action |-> ui_action,
     response_text |-> "",
     query |-> query,
     counts |-> counts,
     data |-> data,
     audio_cached |-> FALSE,
     cache_key |-> "",
     audio_url |-> audio_url]

----------------------------------------------------------------------------
(* services/audio_config_service.py *)

\* interaction_count >= 5 selects the short variant
ShortThreshold == 5

\* self._config.get(key): None for a missing key and for a null value
ConfigGet(cfg, key) == IF key \in DOMAIN cfg THEN cfg[key] ELSE None

\* A plausible slip: the threshold is exclusive
get_url_exclusive(cfg, intent, interaction_count) ==
    LET short_url == ConfigGet(cfg, intent \o "_short")
    IN  IF interaction_count # None /\ Val(interaction_count) > ShortThreshold
           /\ short_url # None
        THEN short_url
        ELSE ConfigGet(cfg, intent)

\* AudioConfigService.get_url(intent, interaction_count)
get_url(cfg, intent, interaction_count) ==
    LET short_url == ConfigGet(cfg, intent \o "_short")
    IN  IF interaction_count # None /\ Val(interaction_count) >= ShortThreshold
           /\ short_url # None
        THEN short_url
        ELSE ConfigGet(cfg, intent)

\* get_url as _process_intent calls it, with the home/away flag as a third
\* argument: selection by intent and interaction count (spec 4.6)
get_url_is_home(cfg, intent, interaction_count, is_home) ==
    get_url(cfg, intent, interaction_count)

\* get_url_direct(key) as _process_intent calls it: the asset mapped to a key
get_url_direct(cfg, key) == ConfigGet(cfg, key)

Url(key) == Some("https://audio/" \o key)

\* a configuration file with regular and short greetings, the three direct
\* assets, some intents with an asset, one set to null and the others absent
DeployedConfig ==
    [k \in {"entry", "entry_short", "get_duties", "cng_pumps",
            "cng_pumps_short", "generic", "find_chip", "india_only",
            "no_duty"} |->
        IF k = "generic" THEN None ELSE Url(k)]

Configs == {DeployedConfig}

\* the configurations that matter to get_url(intent, ...): the regular and
\* the short key of the intent, each absent, null or mapped to a URL
AudioConfigsFor(intent) ==
    LET keys == {intent, intent \o "_short"}
    IN  UNION {[D -> {"null", "url"}] : D \in SUBSET keys}

\* the _config dict of such a configuration
AsConfig(f) == [k \in DOMAIN f |-> IF f[k] = "null" THEN None ELSE Url(k)]

InitAudio ==
    /\ MergeUnused
    /\ Idle
    /\ SessionsUnused
    /\ PairUnused
    /\ LoadUnused
    /\ CombineUnused
    /\ SearchUnused
    /\ CacheUnused
    /\ EndpointsUnused
    /\ \E intent \in IntentTypes :
          /\ sel_intent = Some(intent)
          /\ \E f \in AudioConfigsFor(intent) : sel_config = AsConfig(f)
    /\ sel_count \in {None} \cup {Some(n) : n \in 0..MaxInteractionCount}
    /\ sel_url = None
    /\ sel_pc = "input"

\* audio_config.get_url(intent, interaction_count) is called
SelectAudio ==
    /\ sel_pc = "input"
    /\ sel_url' = get_url(sel_config, Val(sel_intent), sel_count)
    /\ sel_pc' = "done"
    /\ UNCHANGED <<sel_config, sel_intent, sel_count>>
    /\ UNCHANGED restOfAudio

NextAudio == SelectAudio

SpecAudio == InitAudio /\ [][NextAudio]_vars

----------------------------------------------------------------------------
(* services/geocoding_service.py *)

\* what the geocoding provider answers to one lookup
GeoReplies == {"http_error", "status_not_ok", "ok_no_country", "ok_IN", "ok_US"}

\* [lat, lng] of the first result
LatLng == <<"lat", "lng">>

\* get_city_coordinates_with_country(city): (coordinates, country_code)
get_city_coordinates_with_country(city, reply) ==
    IF ~Truthy(city) THEN <<None, None>>
    ELSE CASE reply = "http_error" -> <<None, None>>
           [] reply = "status_not_ok" -> <<None, None>>
           [] reply = "ok_no_country" -> <<Some(LatLng), None>>
           [] reply = "ok_IN" -> <<Some(LatLng), Some("IN")>>
           [] reply = "ok_US" -> <<Some(LatLng), Some("US")>>

----------------------------------------------------------------------------
(* services/typesense_service.py: one search task *)

\* limit=50 and radius_km=50.0 of every search _process_intent issues
SearchLimit == 50
RadiusKm == 50

SearchArgs(kind, pickup_city, drop_city, coordinates) ==
    [kind |-> kind,
     pickup_city |-> pickup_city,
     drop_city |-> drop_city,
     pickup_coordinates |-> coordinates,
     radius_km |-> RadiusKm,
     limit |-> SearchLimit]

\* bool(pickup_coordinates): a non-empty list
HasCoordinates(args) == args.pickup_coordinates # None

SearchMode(args) == IF HasCoordinates(args) THEN "geo" ELSE "text"

\* the documents a search may append to its result: each carries its id and
\* the version of the document that this mode of search returned
\* (a result page never holds the same document twice)
HitLists(mode) ==
    {[k \in 1..Len(ids) |-> [id |-> Some(ids[k]), payload |-> mode]] :
        ids \in {s \in SeqsUpTo(DocIds, MaxHits) :
                    \A i, j \in 1..Len(s) : i # j => s[i] # s[j]}}

\* what the search collaborator does for one task: it raises, or it answers
CollaboratorOutcomes(args) ==
    {[raised |-> TRUE, hits |-> <<>>]}
        \cup {[raised |-> FALSE, hits |-> h] : h \in HitLists(SearchMode(args))}

\* search_trips / search_leads: the documents, or [] when anything raised
SearchReturn(args, outcome) ==
    IF outcome.raised THEN <<>>
    ELSE SubSeq(outcome.hits, 1,
                IF Len(outcome.hits) < args.limit THEN Len(outcome.hits)
                ELSE args.limit)

----------------------------------------------------------------------------
(* services/firebase_service.py: log_search *)

\* the service a log_search call finds: settings.enable_analytics_logging,
\* and whether initialize() has set _initialized and _client
FirebaseStates ==
    {[enabled |-> e, initialized |-> i, client |-> c] :
        e \in BOOLEAN,
        i \in BOOLEAN,
        c \in {None, Some("firestore")}}

\* what the Firestore write does: it adds the document, or it raises
WriteOutcomes == {"added", "raised"}

\* pickup_city or "ALL", drop_city or "N/A"
OrDefault(city, default) == IF Truthy(city) THEN Val(city) ELSE default

\* the analytics document of lines 106-113 (without its timestamp)
DocData(event) ==
    [pickup_city |-> OrDefault(event.pickup_city, <<"A", "L", "L">>),
     drop_city |-> OrDefault(event.drop_city, <<"N", "/", "A">>),
     used_geo |-> event.used_geo,
     trips_count |-> event.trips_count,
     leads_count |-> event.leads_count]

\* A plausible slip: the failure of the write is not caught
log_search_uncaught(svc, event, write) ==
    IF ~svc.enabled
    THEN [raised |-> FALSE, path |-> "disabled", written |-> None]
    ELSE IF ~svc.initialized \/ svc.client = None
    THEN [raised |-> FALSE, path |-> "not_initialized", written |-> None]
    ELSE IF write = "raised"
    THEN [raised |-> TRUE, path |-> "write_failed", written |-> None]
    ELSE [raised |-> FALSE, path |-> "written", written |-> Some(DocData(event))]

\* FirebaseService.log_search: the path taken, the document written if any,
\* and whether an exception left the call
log_search(svc, event, write) ==
    IF ~svc.enabled
    THEN [raised |-> FALSE, path |-> "disabled", written |-> None]
    ELSE IF ~svc.initialized \/ svc.client = None
    THEN [raised |-> FALSE, path |-> "not_initialized", written |-> None]
    ELSE IF write = "raised"
    THEN [raised |-> FALSE, path |-> "write_failed", written |-> None]
    ELSE [raised |-> FALSE, path |-> "written", written |-> Some(DocData(event))]

----------------------------------------------------------------------------
(* api/routes.py: _process_intent, one request *)

\* the inputs of one request
ChipClicks == {None, Some("find"), Some("other")}
Texts == {<<>>, <<" ", " ">>, <<" ", "d">>}
InteractionCounts == {None, Some(5)}
\* request.session_id: absent, empty, or an id
RequestSessionIds == {None, Some(""), Some("s1")}

\* every chip, text, interaction count and home flag without a session id, and
\* every chip and text with each session id
Requests ==
    [chip_click : ChipClicks,
     text : Texts,
     interaction_count : InteractionCounts,
     is_home : BOOLEAN,
     session_id : {None}]
        \cup [chip_click : ChipClicks,
              text : Texts,
              interaction_count : {None},
              is_home : {TRUE},
              session_id : RequestSessionIds]

\* str(uuid.uuid4()): a token that no request supplies
Uuid4 == "uuid4"

\* A plausible slip: a new token is generated for every request
SessionIdAlwaysFresh(r) == Uuid4

\* line 67: session_id = request.session_id or str(uuid.uuid4())
SessionIdOf(r) ==
    IF r.session_id # None /\ Val(r.session_id) # ""
    THEN Val(r.session_id)
    ELSE Uuid4

\* the place names the classifier may extract: absent, empty, blank, a name
FromCities == {None, Some(<<>>), Some(<<" ">>), Some(<<"P">>)}
ToCities == {None, Some(<<>>), Some(<<" ">>), Some(<<"G">>)}

\* the IntentResult of the classifier's two error paths
FallbackResult == [intent |-> "generic", ui_action |-> "none", data |-> None]

\* what classify_and_respond may return: a parsed reply, or the fallback
ClassifierResults ==
    {FallbackResult}
        \cup [intent : IntentTypes \ {"get_duties"},
              ui_action : {"none", "show_map"},
              data : {Some([from_city |-> None, to_city |-> None])}]
        \cup [intent : {"get_duties"},
              ui_action : {"show_duties_list"},
              data : {Some(e) : e \in [from_city : FromCities, to_city : ToCities]}]

TargetCountry == "IN"

Req == Val(request)
IR == Val(intent_result)

\* intent_result.data.get("extracted_params", {}) if intent_result.data else {}
ExtractedParams ==
    IF IR.data = None THEN [from_city |-> None, to_city |-> None] ELSE Val(IR.data)

\* A plausible slip: the comparison with the target country is inverted
OutOfRegionInverted(country) == country # None /\ country = Some(TargetCountry)

\* A plausible slip: a place without a country code is rejected too
OutOfRegionFailClosed(country) == country # Some(TargetCountry)

\* lines 167-177 and 220-228: a country code was found and it is not "IN"
OutOfRegion(country) == country # None /\ country # Some(TargetCountry)

\* A plausible slip: a blank name is not taken as missing
CityEmptyNoStrip(city) == ~Truthy(city)

\* not city or (isinstance(city, str) and city.strip() == "")
CityEmpty(city) == IF Truthy(city) THEN Strip(Val(city)) = <<>> ELSE TRUE

\* A plausible slip: the two counts are passed the wrong way round
SearchEventCountsSwapped(pickup_city, drop_city, geo, trips_count, leads_count) ==
    [pickup_city |-> pickup_city,
     drop_city |-> drop_city,
     used_geo |-> geo,
     trips_count |-> leads_count,
     leads_count |-> trips_count]

\* the keyword arguments of one log_search call
SearchEvent(pickup_city, drop_city, geo, trips_count, leads_count) ==
    [pickup_city |-> pickup_city,
     drop_city |-> drop_city,
     used_geo |-> geo,
     trips_count |-> trips_count,
     leads_count |-> leads_count]

\* the data attached for an intent other than get_duties (lines 369-403)
Placeholder(intent) ==
    CASE intent \in {"cng_pumps", "petrol_pumps", "parking", "police_station"}
            -> Some(<<<<"stations", <<>>>>>>)
      [] intent = "nearby_drivers" -> Some(<<<<"drivers", <<>>>>>>)
      [] intent = "towing" -> Some(<<<<"services", <<>>>>>>)
      [] intent = "toilets" -> Some(<<<<"locations", <<>>>>>>)
      [] intent = "taxi_stands" -> Some(<<<<"stands", <<>>>>>>)
      [] intent \in {"auto_parts", "car_repair"} -> Some(<<<<"shops", <<>>>>>>)
      [] intent = "hospital" -> Some(<<<<"hospitals", <<>>>>>>)
      [] intent = "end" -> Some(<<>>)
      [] OTHER -> None

\* the response of the region gate (lines 193-205, 244-256)
IndiaOnlyResponse ==
    AssistantResponse(SessionIdOf(Req), "end", "show_end", None,
                      get_url_direct(config, "india_only"), None, None)

Init ==
    /\ MergeUnused
    /\ AudioUnused
    /\ SessionsUnused
    /\ PairUnused
    /\ LoadUnused
    /\ CombineUnused
    /\ SearchUnused
    /\ CacheUnused
    /\ EndpointsUnused
    /\ pc = "idle"
    /\ request = None
    /\ config \in Configs
    /\ intent_result = None
    /\ pickup_coordinates = None
    /\ pickup_country = None
    /\ drop_country = None
    /\ used_geo = FALSE
    /\ search_tasks = <<>>
    /\ search_results = <<>>
    /\ completed_early = {}
    /\ all_trips = <<>>
    /\ all_leads = <<>>
    /\ classifier_calls = 0
    /\ geocode_calls = <<>>
    /\ background_tasks = <<>>
    /\ response = None
    /\ log_results = <<>>
    /\ session_key = None

\* a request reaches _process_intent
ReceiveRequest ==
    /\ pc = "idle"
    /\ \E r \in Requests : request' = Some(r)
    /\ pc' = "start"
    /\ UNCHANGED <<config, intent_result, pickup_coordinates, pickup_country,
                   drop_country, used_geo, search_tasks, search_results,
                   completed_early, all_trips, all_leads, classifier_calls,
                   geocode_calls, background_tasks, response>>
    /\ UNCHANGED log_results
    /\ UNCHANGED session_key
    /\ UNCHANGED restOfReq

\* lines 69-82: the chip "find"
ChipClick ==
    /\ pc = "start"
    /\ Req.chip_click = Some("find")
    /\ response' = Some(AssistantResponse(SessionIdOf(Req), "generic", "none", None,
                            get_url_direct(config, "find_chip"), None, None))
    /\ pc' = "done"
    /\ UNCHANGED <<request, config, intent_result, pickup_coordinates,
                   pickup_country, drop_country, used_geo, search_tasks,
                   search_results, completed_early, all_trips, all_leads,
                   classifier_calls, geocode_calls, background_tasks>>
    /\ UNCHANGED log_results
    /\ UNCHANGED session_key
    /\ UNCHANGED restOfReq

\* A plausible slip: the empty utterance is tested before the chip
EntryStateBeforeChip ==
    /\ pc = "start"
    /\ Strip(Req.text) = <<>>
    /\ response' = Some(AssistantResponse(SessionIdOf(Req), "entry", "entry", None,
                            get_url_is_home(config, "entry",
                                Req.interaction_count, Req.is_home),
                            None, None))
    /\ pc' = "done"
    /\ UNCHANGED <<request, config, intent_result, pickup_coordinates,
                   pickup_country, drop_country, used_geo, search_tasks,
                   search_results, completed_early, all_trips, all_leads,
                   classifier_calls, geocode_calls, background_tasks>>
    /\ UNCHANGED log_results
    /\ UNCHANGED session_key
    /\ UNCHANGED restOfReq

\* lines 84-101: the empty utterance
EntryState ==
    /\ pc = "start"
    /\ Req.chip_click # Some("find")
    /\ Strip(Req.text) = <<>>
    /\ response' = Some(AssistantResponse(SessionIdOf(Req), "entry", "entry", None,
                            get_url_is_home(config, "entry",
                                Req.interaction_count, Req.is_home),
                            None, None))
    /\ pc' = "done"
    /\ UNCHANGED <<request, config, intent_result, pickup_coordinates,
                   pickup_country, drop_country, used_geo, search_tasks,
                   search_results, completed_early, all_trips, all_leads,
                   classifier_calls, geocode_calls, background_tasks>>
    /\ UNCHANGED log_results
    /\ UNCHANGED session_key
    /\ UNCHANGED restOfReq

\* lines 103-111: the classifier is awaited, with session_id=session_id
CallClassifier ==
    /\ pc = "start"
    /\ Req.chip_click # Some("find")
    /\ Strip(Req.text) # <<>>
    /\ \E res \in ClassifierResults : intent_result' = Some(res)
    /\ classifier_calls' = classifier_calls + 1
    /\ pc' = "classified"
    /\ UNCHANGED <<request, config, pickup_coordinates, pickup_country,
                   drop_country, used_geo, search_tasks, search_results,
                   completed_early, all_trips, all_leads, geocode_calls,
                   background_tasks, response>>
    /\ UNCHANGED log_results
    /\ session_key' = Some(SessionIdOf(Req))
    /\ UNCHANGED restOfReq

\* lines 113-145: get_duties with both cities missing becomes the entry state
EntryFallback ==
    /\ pc = "classified"
    /\ IR.intent = "get_duties"
    /\ CityEmpty(ExtractedParams.from_city)
    /\ CityEmpty(ExtractedParams.to_city)
    /\ response' = Some(AssistantResponse(SessionIdOf(Req), "entry", "entry", None,
                            get_url_is_home(config, "entry",
                                Req.interaction_count, Req.is_home),
                            None, None))
    /\ pc' = "done"
    /\ UNCHANGED <<request, config, intent_result, pickup_coordinates,
                   pickup_country, drop_country, used_geo, search_tasks,
                   search_results, completed_early, all_trips, all_leads,
                   classifier_calls, geocode_calls, background_tasks>>
    /\ UNCHANGED log_results
    /\ UNCHANGED session_key
    /\ UNCHANGED restOfReq

\* the duty search goes on after line 145
DutySearch ==
    /\ IR.intent = "get_duties"
    /\ ~(CityEmpty(ExtractedParams.from_city) /\ CityEmpty(ExtractedParams.to_city))

\* lines 161-212: the region gate on the pickup city
CheckPickup ==
    /\ pc = "classified"
    /\ DutySearch
    /\ LET pickup_city == ExtractedParams.from_city
           drop_city == ExtractedParams.to_city
       IN  IF Truthy(pickup_city)
           THEN \E reply \in GeoReplies :
                  LET res == get_city_coordinates_with_country(pickup_city, reply)
                  IN  /\ geocode_calls' = Append(geocode_calls, pickup_city)
                      /\ pickup_country' = res[2]
                      /\ IF res[2] = None
                         THEN /\ pickup_coordinates' = None
                              /\ used_geo' = FALSE
                              /\ pc' = "check_drop"
                              /\ UNCHANGED <<background_tasks, response>>
                         ELSE IF OutOfRegion(res[2])
                         THEN /\ pickup_coordinates' = res[1]
                              /\ background_tasks' =
                                    Append(background_tasks,
                                        SearchEvent(pickup_city, drop_city, FALSE, 0, 0))
                              /\ response' = Some(IndiaOnlyResponse)
                              /\ pc' = "done"
                              /\ UNCHANGED used_geo
                         ELSE /\ pickup_coordinates' = res[1]
                              /\ used_geo' = (res[1] # None)
                              /\ pc' = "check_drop"
                              /\ UNCHANGED <<background_tasks, response>>
           ELSE /\ pc' = "check_drop"
                /\ UNCHANGED <<pickup_coordinates, pickup_country, used_geo,
                               geocode_calls, background_tasks, response>>
    /\ UNCHANGED <<request, config, intent_result, drop_country, search_tasks,
                   search_results, completed_early, all_trips, all_leads,
                   classifier_calls>>
    /\ UNCHANGED log_results
    /\ UNCHANGED session_key
    /\ UNCHANGED restOfReq

\* lines 214-256: the region gate on the drop city
CheckDrop ==
    /\ pc = "check_drop"
    /\ LET pickup_city == ExtractedParams.from_city
           drop_city == ExtractedParams.to_city
       IN  IF Truthy(drop_city)
           THEN \E reply \in GeoReplies :
                  LET res == get_city_coordinates_with_country(drop_city, reply)
                  IN  /\ geocode_calls' = Append(geocode_calls, drop_city)
                      /\ drop_country' = res[2]
                      /\ IF OutOfRegion(res[2])
                         THEN /\ background_tasks' =
                                    Append(background_tasks,
                                        SearchEvent(pickup_city, drop_city, used_geo, 0, 0))
                              /\ response' = Some(IndiaOnlyResponse)
                              /\ pc' = "done"
                         ELSE /\ pc' = "fan_out"
                              /\ UNCHANGED <<background_tasks, response>>
           ELSE /\ pc' = "fan_out"
                /\ UNCHANGED <<drop_country, geocode_calls, background_tasks, response>>
    /\ UNCHANGED <<request, config, intent_result, pickup_coordinates,
                   pickup_country, used_geo, search_tasks, search_results,
                   completed_early, all_trips, all_leads, classifier_calls>>
    /\ UNCHANGED log_results
    /\ UNCHANGED session_key
    /\ UNCHANGED restOfReq

\* a task handed to asyncio.gather, not yet complete
Task(args) == [args |-> args, returned |-> None, raised |-> FALSE]

\* A plausible slip: the geo searches are left out
BuildSearchTasksTextOnly(pickup_city, drop_city, coordinates) ==
    <<Task(SearchArgs("trips", pickup_city, drop_city, None)),
      Task(SearchArgs("leads", pickup_city, drop_city, None))>>

\* lines 258-286: the list of search tasks
BuildSearchTasks(pickup_city, drop_city, coordinates) ==
    <<Task(SearchArgs("trips", pickup_city, drop_city, None)),
      Task(SearchArgs("leads", pickup_city, drop_city, None))>>
    \o (IF coordinates # None
        THEN <<Task(SearchArgs("trips", None, drop_city, coordinates)),
               Task(SearchArgs("leads", None, drop_city, coordinates))>>
        ELSE <<>>)

\* lines 258-289: the searches are issued and gathered
IssueSearches ==
    /\ pc = "fan_out"
    /\ search_tasks' = BuildSearchTasks(ExtractedParams.from_city,
                                        ExtractedParams.to_city,
                                        pickup_coordinates)
    /\ search_results' = [i \in 1..Len(search_tasks') |-> None]
    /\ pc' = "gather"
    /\ UNCHANGED <<request, config, intent_result, pickup_coordinates,
                   pickup_country, drop_country, used_geo, completed_early,
                   all_trips, all_leads, classifier_calls, geocode_calls,
                   background_tasks, response>>
    /\ UNCHANGED log_results
    /\ UNCHANGED session_key
    /\ UNCHANGED restOfReq

\* A plausible slip: results are taken in the order of completion
GatherStoreByArrival(results, i, value) ==
    LET k == CHOOSE j \in 1..Len(results) :
                 results[j] = None /\ \A h \in 1..(j - 1) : results[h] # None
    IN  [results EXCEPT ![k] = Some([exc |-> FALSE, value |-> value])]

\* asyncio.gather(*search_tasks, return_exceptions=True): the result of
\* task i is element i of the list
GatherStore(results, i, value) ==
    [results EXCEPT ![i] = Some([exc |-> FALSE, value |-> value])]

\* one search task runs to completion, in any order
TaskComplete ==
    /\ pc = "gather"
    /\ \E i \in 1..Len(search_tasks) :
          /\ search_tasks[i].returned = None
          /\ \E outcome \in CollaboratorOutcomes(search_tasks[i].args) :
                LET value == SearchReturn(search_tasks[i].args, outcome)
                IN  /\ search_tasks' =
                          [search_tasks EXCEPT ![i].returned = Some(value),
                                               ![i].raised = outcome.raised]
                    /\ search_results' = GatherStore(search_results, i, value)
          /\ completed_early' =
                IF i > 2 /\ search_tasks[i - 2].returned = None
                THEN completed_early \cup {i}
                ELSE completed_early
    /\ UNCHANGED <<pc, request, config, intent_result, pickup_coordinates,
                   pickup_country, drop_country, used_geo, all_trips, all_leads,
                   classifier_calls, geocode_calls, background_tasks, response>>
    /\ UNCHANGED log_results
    /\ UNCHANGED session_key
    /\ UNCHANGED restOfReq

\* A plausible slip: only the text-mode batch is merged
MergedBatchesTextOnly(results, text, geo) ==
    merge_and_deduplicate(<<ListBatch(Val(results[text]).value)>>)

\* lines 292-309: search_results[k] if it is there and no exception, else [],
\* then the merge of the text batch and the geo batch
MergedBatches(results, text, geo) ==
    LET ResultOrEmpty(k) ==
            IF Len(results) >= k /\ ~Val(results[k]).exc
            THEN Val(results[k]).value
            ELSE <<>>
    IN  merge_and_deduplicate(<<ListBatch(ResultOrEmpty(text)),
                                ListBatch(ResultOrEmpty(geo))>>)

\* A plausible slip: one empty list is enough to report no duty
NoDutiesFoundEither(trips, leads) ==
    IF Len(trips) = 0 THEN TRUE ELSE Len(leads) = 0

\* line 329: no trip and no lead
NoDutiesFound(trips, leads) == Len(trips) = 0 /\ Len(leads) = 0

\* lines 289-367 and 405-431: gather returns, the results are merged and the
\* response is built
Finish ==
    /\ pc = "gather"
    /\ \A i \in 1..Len(search_tasks) : search_tasks[i].returned # None
    /\ LET pickup_city == ExtractedParams.from_city
           drop_city == ExtractedParams.to_city
           trips == MergedBatches(search_results, 1, 3)
           leads == MergedBatches(search_results, 2, 4)
           query_info == [pickup_city |-> pickup_city,
                          drop_city |-> drop_city,
                          used_geo |-> used_geo]
           counts_info == [trips |-> Len(trips), leads |-> Len(leads)]
       IN  /\ all_trips' = trips
           /\ all_leads' = leads
           /\ IF NoDutiesFound(trips, leads)
              THEN /\ background_tasks' =
                         Append(background_tasks,
                             SearchEvent(pickup_city, drop_city, used_geo, 0, 0))
                   /\ response' = Some(AssistantResponse(SessionIdOf(Req), "end",
                                           "show_end", None,
                                           get_url_direct(config, "no_duty"),
                                           None, None))
              ELSE /\ background_tasks' =
                         Append(background_tasks,
                             SearchEvent(pickup_city, drop_city, used_geo,
                                         Len(trips), Len(leads)))
                   /\ response' =
                         Some(AssistantResponse(SessionIdOf(Req), IR.intent,
                                                IR.ui_action,
                                  Some(<<<<"trips", trips>>, <<"leads", leads>>>>),
                                  get_url_is_home(config, IR.intent,
                                      Req.interaction_count, Req.is_home),
                                  Some(query_info), Some(counts_info)))
    /\ pc' = "done"
    /\ UNCHANGED <<request, config, intent_result, pickup_coordinates,
                   pickup_country, drop_country, used_geo, search_tasks,
                   search_results, completed_early, classifier_calls,
                   geocode_calls>>
    /\ UNCHANGED log_results
    /\ UNCHANGED session_key
    /\ UNCHANGED restOfReq

\* A plausible slip: the analytics event is scheduled for every intent
OtherIntentLogged ==
    /\ pc = "classified"
    /\ IR.intent # "get_duties"
    /\ response' = Some(AssistantResponse(SessionIdOf(Req), IR.intent, IR.ui_action,
                            Placeholder(IR.intent),
                            get_url_is_home(config, IR.intent,
                                Req.interaction_count, Req.is_home),
                            None, None))
    /\ background_tasks' =
          Append(background_tasks,
              SearchEvent(ExtractedParams.from_city, ExtractedParams.to_city,
                          used_geo, 0, 0))
    /\ pc' = "done"
    /\ UNCHANGED <<request, config, intent_result, pickup_coordinates,
                   pickup_country, drop_country, used_geo, search_tasks,
                   search_results, completed_early, all_trips, all_leads,
                   classifier_calls, geocode_calls>>
    /\ UNCHANGED log_results
    /\ UNCHANGED session_key
    /\ UNCHANGED restOfReq

\* lines 369-431: every other intent
OtherIntent ==
    /\ pc = "classified"
    /\ IR.intent # "get_duties"
    /\ response' = Some(AssistantResponse(SessionIdOf(Req), IR.intent, IR.ui_action,
                            Placeholder(IR.intent),
                            get_url_is_home(config, IR.intent,
                                Req.interaction_count, Req.is_home),
                            None, None))
    /\ pc' = "done"
    /\ UNCHANGED <<request, config, intent_result, pickup_coordinates,
                   pickup_country, drop_country, used_geo, search_tasks,
                   search_results, completed_early, all_trips, all_leads,
                   classifier_calls, geocode_calls, background_tasks>>
    /\ UNCHANGED log_results
    /\ UNCHANGED session_key
    /\ UNCHANGED restOfReq

\* the response has been returned: BackgroundTasks runs the scheduled
\* log_search call
RunBackgroundTask ==
    /\ pc = "done"
    /\ Len(log_results) < Len(background_tasks)
    /\ \E svc \in FirebaseStates, write \in WriteOutcomes :
          log_results' =
              Append(log_results,
                     log_search(svc, background_tasks[Len(log_results) + 1], write))
    /\ UNCHANGED <<pc, request, config, intent_result, pickup_coordinates,
                   pickup_country, drop_country, used_geo, search_tasks,
                   search_results, completed_early, all_trips, all_leads,
                   classifier_calls, geocode_calls, background_tasks, response>>
    /\ UNCHANGED session_key
    /\ UNCHANGED restOfReq

Next ==
    \/ ReceiveRequest
    \/ ChipClick
    \/ EntryState
    \/ CallClassifier
    \/ EntryFallback
    \/ CheckPickup
    \/ CheckDrop
    \/ IssueSearches
    \/ TaskComplete
    \/ Finish
    \/ OtherIntent

Spec == Init /\ [][Next]_vars

\* the request and, after its response, the run of its background task
NextBackground ==
    \/ Next
    \/ RunBackgroundTask

SpecBackground == Init /\ [][NextBackground]_vars

----------------------------------------------------------------------------
(* services/gemini_service.py: classify_and_respond and clear_session on the
   one GeminiService of the process *)

SessionIds == {"s1", "s2"}

\* the session_id argument: None, or an id
SessionArgs == {None} \cup {Some(sid) : sid \in SessionIds}

\* if session_id
Supplied(session_id) == session_id # None /\ Val(session_id) # ""

\* A plausible slip: the stored history is not read
SessionsGetFresh(store, session_id) == <<>>

\* self._sessions.get(session_id, []) if session_id else []
SessionsGet(store, session_id) ==
    IF Supplied(session_id) /\ store[Val(session_id)] # None
    THEN Val(store[Val(session_id)])
    ELSE <<>>

\* what happens to one message: no reply text is obtained (the context cannot
\* be built from the profile, the send times out or fails, the reply has no
\* text), or a reply text comes back that is not JSON, is JSON but not an
\* object, or is an object with its intent and ui_action tags
CollaboratorReplies ==
    {[kind |-> k, intent |-> "", ui_action |-> ""] :
        k \in {"no_reply", "not_json", "json_not_object"}}
        \cup {[kind |-> "object", intent |-> "get_duties",
                ui_action |-> "show_duties_list"],
               [kind |-> "object", intent |-> "profile_verification",
                ui_action |-> "show_verification_checklist"]}

\* chat.history once the reply has come: the history the chat was started
\* with, then this turn (the message of call c and the reply to it)
ChatHistory(call, c) == call.history \o <<c>>

\* the IntentResult of lines 253-258
ParsedResult(reply) ==
    [intent |-> reply.intent,
     ui_action |-> reply.ui_action,
     data |-> Some([from_city |-> None, to_city |-> None])]

\* IntentType(...) and UIAction(...) accept the tags of the enumerations
ValidTags(reply) == reply.intent \in IntentTypes /\ reply.ui_action \in UIActions

\* A plausible slip: only the parse error is caught
AfterReplyParseErrorOnly(store, call, c, reply) ==
    IF reply.kind = "no_reply"
    THEN [store |-> store, result |-> None, path |-> "raised", raised |-> TRUE]
    ELSE IF reply.kind = "not_json"
    THEN [store |-> store, result |-> Some(FallbackResult),
          path |-> "parse_error", raised |-> FALSE]
    ELSE LET updated ==
                 IF Supplied(call.session_id)
                 THEN [store EXCEPT ![Val(call.session_id)] = Some(ChatHistory(call, c))]
                 ELSE store
         IN  IF reply.kind = "object" /\ ValidTags(reply)
             THEN [store |-> updated, result |-> Some(ParsedResult(reply)),
                   path |-> "ok", raised |-> FALSE]
             ELSE [store |-> updated, result |-> None,
                   path |-> "raised", raised |-> TRUE]

\* A plausible slip: the history sent is stored, without this turn
AfterReplyStoresSent(store, call, c, reply) ==
    IF reply.kind = "no_reply"
    THEN [store |-> store, result |-> Some(FallbackResult),
          path |-> "technical", raised |-> FALSE]
    ELSE IF reply.kind = "not_json"
    THEN [store |-> store, result |-> Some(FallbackResult),
          path |-> "parse_error", raised |-> FALSE]
    ELSE LET updated ==
                 IF Supplied(call.session_id)
                 THEN [store EXCEPT ![Val(call.session_id)] = Some(call.history)]
                 ELSE store
         IN  IF reply.kind = "object" /\ ValidTags(reply)
             THEN [store |-> updated, result |-> Some(ParsedResult(reply)),
                   path |-> "ok", raised |-> FALSE]
             ELSE [store |-> updated, result |-> Some(FallbackResult),
                   path |-> "technical", raised |-> FALSE]

\* classify_and_respond from the return of send_message_async on (lines
\* 230-278): the store, the IntentResult returned, the path taken
AfterReply(store, call, c, reply) ==
    IF reply.kind = "no_reply"
    THEN [store |-> store, result |-> Some(FallbackResult),
          path |-> "technical", raised |-> FALSE]
    ELSE IF reply.kind = "not_json"
    THEN [store |-> store, result |-> Some(FallbackResult),
          path |-> "parse_error", raised |-> FALSE]
    ELSE LET updated ==
                 IF Supplied(call.session_id)
                 THEN [store EXCEPT ![Val(call.session_id)] = Some(ChatHistory(call, c))]
                 ELSE store
         IN  IF reply.kind = "object" /\ ValidTags(reply)
             THEN [store |-> updated, result |-> Some(ParsedResult(reply)),
                   path |-> "ok", raised |-> FALSE]
             ELSE [store |-> updated, result |-> Some(FallbackResult),
                   path |-> "technical", raised |-> FALSE]

\* A plausible slip: the whole store is emptied
clear_session_all(store, session_id) ==
    [store |-> [sid \in DOMAIN store |-> None], raised |-> FALSE]

\* A plausible slip: the entry is deleted without testing that it is there
clear_session_unchecked(store, session_id) ==
    [store |-> [store EXCEPT ![session_id] = None],
     raised |-> store[session_id] = None]

\* GeminiService.clear_session
clear_session(store, session_id) ==
    IF store[session_id] # None
    THEN [store |-> [store EXCEPT ![session_id] = None], raised |-> FALSE]
    ELSE [store |-> store, raised |-> FALSE]

\* the turns of a stored history
Turns(entry) == IF entry = None THEN {} ELSE {Val(entry)[k] : k \in 1..Len(Val(entry))}

InitSession ==
    /\ MergeUnused
    /\ PairUnused
    /\ LoadUnused
    /\ CombineUnused
    /\ SearchUnused
    /\ CacheUnused
    /\ EndpointsUnused
    /\ Idle
    /\ AudioUnused
    /\ sessions = [sid \in SessionIds |-> None]
    /\ calls = <<>>
    /\ finished = <<>>
    /\ cleared = <<>>
    /\ removed = [sid \in SessionIds |-> {}]

\* a call of classify_and_respond runs up to its await (lines 219-231): the
\* history of the session is read and the message is sent
StartCall ==
    /\ Len(calls) < MaxCalls
    /\ \E session_id \in SessionArgs :
          calls' = Append(calls,
              [session_id |-> session_id,
               history |-> SessionsGet(sessions, session_id),
               concurrent |-> {k \in 1..Len(calls) : calls[k].state = "awaiting"},
               state |-> "awaiting",
               reply |-> None,
               result |-> None,
               path |-> "",
               raised |-> FALSE])
    /\ UNCHANGED <<sessions, finished, cleared, removed>>
    /\ UNCHANGED restOfSess

\* send_message_async of call c returns or raises, and the call runs to its
\* return (lines 231-278)
ReplyArrives ==
    /\ \E c \in 1..Len(calls) :
          /\ calls[c].state = "awaiting"
          /\ \E reply \in CollaboratorReplies :
                LET after == AfterReply(sessions, calls[c], c, reply)
                IN  /\ sessions' = after.store
                    /\ calls' = [calls EXCEPT ![c].state = "done",
                                              ![c].reply = Some(reply),
                                              ![c].result = after.result,
                                              ![c].path = after.path,
                                              ![c].raised = after.raised]
          /\ finished' = Append(finished, c)
    /\ UNCHANGED <<cleared, removed>>
    /\ UNCHANGED restOfSess

\* DELETE /session/{session_id} (routes.py lines 563-568)
ClearSession ==
    /\ Len(cleared) < MaxClears
    /\ \E sid \in SessionIds :
          LET after == clear_session(sessions, sid)
          IN  /\ sessions' = after.store
              /\ cleared' = Append(cleared,
                     [session_id |-> sid, raised |-> after.raised])
              /\ removed' = [removed EXCEPT ![sid] = @ \cup Turns(sessions[sid])]
    /\ UNCHANGED <<calls, finished>>
    /\ UNCHANGED restOfSess

NextSession ==
    \/ StartCall
    \/ ReplyArrives
    \/ ClearSession

SpecSession == InitSession /\ [][NextSession]_vars

----------------------------------------------------------------------------
(* api/routes.py: query_assistant and query_with_audio; the client of
   test_api_query.py *)

\* the characters of a text field: a letter, a newline, a quote, a backslash
TextChars == {"a", "\n", "\"", "\\"}

\* the Response, as far as its strings go: session_id is the caller's text,
\* audio_url a configured URL or None; the other fields are enumeration tags,
\* booleans and nested strings that the serializer writes the same way
Responses ==
    [session_id : SeqsUpTo(TextChars, MaxText),
     audio_url : {None, Some(<<"u">>)}]

\* the text of an exception
ErrorMessages == {"boom", "secret"}

\* what _process_intent does: it returns a Response or an exception escapes
PipelineOutcomes ==
    {[raised |-> FALSE, response |-> Some(r), message |-> ""] : r \in Responses}
        \cup {[raised |-> TRUE, response |-> None, message |-> msg] :
                msg \in ErrorMessages}

\* the serializer's escape of one character of a string
JsonEscape(ch) ==
    IF ch = "\n" THEN <<"\\", "n">>
    ELSE IF ch = "\"" THEN <<"\\", "\"">>
    ELSE IF ch = "\\" THEN <<"\\", "\\">>
    ELSE <<ch>>

RECURSIVE JsonEscapeAll(_)
JsonEscapeAll(text) ==
    IF text = <<>> THEN <<>>
    ELSE JsonEscape(Head(text)) \o JsonEscapeAll(Tail(text))

\* A plausible slip: the characters are written as they are
JsonStringRaw(text) == <<"\"">> \o text \o <<"\"">>

JsonString(text) == <<"\"">> \o JsonEscapeAll(text) \o <<"\"">>

JsonNull == <<"n", "u", "l", "l">>

JsonOptionalString(o) == IF o = None THEN JsonNull ELSE JsonString(Val(o))

KeySessionId ==
    <<"\"", "s", "e", "s", "s", "i", "o", "n", "_", "i", "d", "\"", ":">>

KeyAudioUrl ==
    <<",", "\"", "a", "u", "d", "i", "o", "_", "u", "r", "l", "\"", ":">>

\* response.model_dump_json(): one compact JSON object
model_dump_json(r) ==
    <<"{">> \o KeySessionId \o JsonString(r.session_id)
        \o KeyAudioUrl \o JsonOptionalString(r.audio_url) \o <<"}">>

\* A plausible slip: audio bytes follow the metadata line whatever the URL
stream_response_with_audio(r) ==
    <<model_dump_json(r) \o <<"\n">>, <<"A", "\n", "A">>>>

\* the chunks the generator stream_response yields, in order
stream_response(r) == <<model_dump_json(r) \o <<"\n">>>>

\* HTTPException(status_code=500, detail="Internal server error")
InternalError ==
    [status |-> "500", detail |-> "Internal server error", body |-> None]

\* A plausible slip: the exception's text is the detail
query_assistant_leaky(p) ==
    IF p.raised
    THEN [status |-> "500", detail |-> p.message, body |-> None]
    ELSE [status |-> "200", detail |-> "", body |-> p.response]

\* POST /query
query_assistant(p) ==
    IF p.raised
    THEN InternalError
    ELSE [status |-> "200", detail |-> "", body |-> p.response]

\* POST /query-with-audio up to its return: the body is streamed afterwards
query_with_audio(p) ==
    IF p.raised
    THEN InternalError
    ELSE [status |-> "200", detail |-> "", body |-> None]

\* the bytes of some chunks, joined
RECURSIVE Joined(_)
Joined(chunks) ==
    IF chunks = <<>> THEN <<>> ELSE Head(chunks) \o Joined(Tail(chunks))

\* data.find(b'\n'): the first position of a newline, 0 when there is none
RECURSIVE FindNewline(_, _)
FindNewline(data, i) ==
    IF i > Len(data) THEN 0
    ELSE IF data[i] = "\n" THEN i
    ELSE FindNewline(data, i + 1)

\* data[:json_end]
JsonPart(data) == SubSeq(data, 1, FindNewline(data, 1) - 1)

\* data[json_end+1:]
AudioPart(data) == SubSeq(data, FindNewline(data, 1) + 1, Len(data))

StartsWith(b, i, lit) ==
    /\ i + Len(lit) - 1 <= Len(b)
    /\ SubSeq(b, i, i + Len(lit) - 1) = lit

NoString == [ok |-> FALSE, text |-> <<>>, next |-> 0]

\* the JSON parser reading a string from the character after its opening quote
RECURSIVE ReadString(_, _, _)
ReadString(b, i, acc) ==
    IF i > Len(b) THEN NoString
    ELSE IF b[i] = "\"" THEN [ok |-> TRUE, text |-> acc, next |-> i + 1]
    ELSE IF b[i] = "\n" THEN NoString
    ELSE IF b[i] = "\\"
    THEN IF i + 1 > Len(b) THEN NoString
         ELSE IF b[i + 1] = "n" THEN ReadString(b, i + 2, Append(acc, "\n"))
         ELSE IF b[i + 1] \in {"\"", "\\"}
         THEN ReadString(b, i + 2, Append(acc, b[i + 1]))
         ELSE NoString
    ELSE ReadString(b, i + 1, Append(acc, b[i]))

\* json.loads(json_str) read back as a Response: None when it does not parse
json_loads(b) ==
    IF ~StartsWith(b, 1, <<"{">> \o KeySessionId \o <<"\"">>) THEN None
    ELSE LET first == ReadString(b, Len(KeySessionId) + 3, <<>>)
             second == first.next + Len(KeyAudioUrl)
         IN  IF ~first.ok THEN None
             ELSE IF ~StartsWith(b, first.next, KeyAudioUrl) THEN None
             ELSE IF SubSeq(b, second, Len(b)) = JsonNull \o <<"}">>
             THEN Some([session_id |-> first.text, audio_url |-> None])
             ELSE IF ~StartsWith(b, second, <<"\"">>) THEN None
             ELSE LET url == ReadString(b, second + 1, <<>>)
                  IN  IF url.ok /\ SubSeq(b, url.next, Len(b)) = <<"}">>
                      THEN Some([session_id |-> first.text,
                                 audio_url |-> Some(url.text)])
                      ELSE None

InitEndpoint ==
    /\ MergeUnused
    /\ PairUnused
    /\ LoadUnused
    /\ CombineUnused
    /\ SearchUnused
    /\ CacheUnused
    /\ Idle
    /\ AudioUnused
    /\ SessionsUnused
    /\ pipeline \in PipelineOutcomes
    /\ plain_result = None
    /\ stream_result = None
    /\ stream_chunks = <<>>
    /\ stream_pc = "idle"

\* the request is sent to POST /query
QueryAssistant ==
    /\ plain_result = None
    /\ plain_result' = Some(query_assistant(pipeline))
    /\ UNCHANGED <<pipeline, stream_result, stream_chunks, stream_pc>>
    /\ UNCHANGED restOfEndpoint

\* the request is sent to POST /query-with-audio
QueryWithAudio ==
    /\ stream_result = None
    /\ stream_result' = Some(query_with_audio(pipeline))
    /\ stream_pc' = IF pipeline.raised THEN "closed" ELSE "streaming"
    /\ UNCHANGED <<pipeline, plain_result, stream_chunks>>
    /\ UNCHANGED restOfEndpoint

\* the server takes the next chunk from stream_response
StreamYield ==
    /\ stream_pc = "streaming"
    /\ Len(stream_chunks) < Len(stream_response(Val(pipeline.response)))
    /\ stream_chunks' = Append(stream_chunks,
           stream_response(Val(pipeline.response))[Len(stream_chunks) + 1])
    /\ UNCHANGED <<pipeline, plain_result, stream_result, stream_pc>>
    /\ UNCHANGED restOfEndpoint

\* stream_response returns: the body is complete
StreamEnd ==
    /\ stream_pc = "streaming"
    /\ Len(stream_chunks) = Len(stream_response(Val(pipeline.response)))
    /\ stream_pc' = "closed"
    /\ UNCHANGED <<pipeline, plain_result, stream_result, stream_chunks>>
    /\ UNCHANGED restOfEndpoint

NextEndpoint ==
    \/ QueryAssistant
    \/ QueryWithAudio
    \/ StreamYield
    \/ StreamEnd

SpecEndpoint == InitEndpoint /\ [][NextEndpoint]_vars

----------------------------------------------------------------------------
(* services/cache_service.py and api/routes.py: get_audio *)

CacheKeys == {"k1", "k2"}

\* chunk_size of audio_stream
chunk_size == 4096

\* audio bytes: len bytes of the recording id; lengths around the chunk size
AudioData ==
    {[id |-> "x", len |-> 0],
     [id |-> "x", len |-> chunk_size + 1],
     [id |-> "y", len |-> 1],
     [id |-> "y", len |-> 2 * chunk_size]}

\* what the Redis call does: it answers, or it raises
RedisOutcomes == {"ok", "raised"}

\* AudioCacheService.set: the store afterwards and the value returned
cache_set(store, cache_key, audio_data, redis) ==
    IF redis = "ok"
    THEN [store |-> [store EXCEPT ![cache_key] = Some(audio_data)], returned |-> TRUE]
    ELSE [store |-> store, returned |-> FALSE]

\* AudioCacheService.get: the bytes, None when absent or when the read raises
cache_get(store, cache_key, redis) ==
    IF redis = "ok" THEN store[cache_key] ELSE None

\* audio_data[i : i + chunk_size], as the range of bytes lo..hi-1 of id
Slice(audio_data, i, j) ==
    [id |-> audio_data.id,
     lo |-> i,
     hi |-> IF j < audio_data.len THEN j ELSE audio_data.len]

\* A plausible slip: each chunk runs one byte into the next
audio_stream_overlapping(audio_data) ==
    [k \in 1..((audio_data.len + chunk_size - 1) \div chunk_size) |->
        Slice(audio_data, (k - 1) * chunk_size, k * chunk_size + 1)]

\* the chunks of audio_stream: one for each i in range(0, len, chunk_size)
audio_stream(audio_data) ==
    [k \in 1..((audio_data.len + chunk_size - 1) \div chunk_size) |->
        Slice(audio_data, (k - 1) * chunk_size, k * chunk_size)]

\* GET /audio/{cache_key}: 404 when 'not audio_data', the stream otherwise
get_audio(store, cache_key, redis) ==
    LET audio_data == cache_get(store, cache_key, redis)
    IN  IF audio_data = None \/ Val(audio_data).len = 0
        THEN [status |-> "404", chunks |-> <<>>]
        ELSE [status |-> "200", chunks |-> audio_stream(Val(audio_data))]

InitCache ==
    /\ MergeUnused
    /\ PairUnused
    /\ LoadUnused
    /\ CombineUnused
    /\ SearchUnused
    /\ Idle
    /\ AudioUnused
    /\ SessionsUnused
    /\ EndpointsUnused
    /\ cache = [k \in CacheKeys |-> None]
    /\ last_set = [k \in CacheKeys |-> None]
    /\ expired = [k \in CacheKeys |-> FALSE]
    /\ fetched = None
    /\ cache_ops = 0

\* some holder of the cache service calls set
CacheSet ==
    /\ cache_ops < MaxCacheOps
    /\ \E cache_key \in CacheKeys, audio_data \in AudioData, redis \in RedisOutcomes :
          LET after == cache_set(cache, cache_key, audio_data, redis)
          IN  /\ cache' = after.store
              /\ last_set' = IF after.returned
                             THEN [last_set EXCEPT ![cache_key] = Some(audio_data)]
                             ELSE last_set
              /\ expired' = IF after.returned
                            THEN [expired EXCEPT ![cache_key] = FALSE]
                            ELSE expired
    /\ cache_ops' = cache_ops + 1
    /\ UNCHANGED fetched
    /\ UNCHANGED restOfCache

\* the time to live given to setex runs out: Redis drops the entry
Expire ==
    /\ cache_ops < MaxCacheOps
    /\ \E cache_key \in CacheKeys :
          /\ cache[cache_key] # None
          /\ cache' = [cache EXCEPT ![cache_key] = None]
          /\ expired' = [expired EXCEPT ![cache_key] = TRUE]
    /\ cache_ops' = cache_ops + 1
    /\ UNCHANGED <<last_set, fetched>>
    /\ UNCHANGED restOfCache

\* a client calls GET /audio/{cache_key}
GetAudio ==
    /\ cache_ops < MaxCacheOps
    /\ \E cache_key \in CacheKeys, redis \in RedisOutcomes :
          LET answer == get_audio(cache, cache_key, redis)
          IN  fetched' = Some([at |-> cache_ops + 1,
                               cache_key |-> cache_key,
                               read_failed |-> redis = "raised",
                               status |-> answer.status,
                               chunks |-> answer.chunks])
    /\ cache_ops' = cache_ops + 1
    /\ UNCHANGED <<cache, last_set, expired>>
    /\ UNCHANGED restOfCache

NextCache ==
    \/ CacheSet
    \/ Expire
    \/ GetAudio

SpecCache == InitCache /\ [][NextCache]_vars

----------------------------------------------------------------------------
(* services/typesense_service.py: search_trips and search_leads, with the
   collection they query *)

\* str.lower() of one character
LowerChar(ch) == IF ch = "G" THEN "g" ELSE IF ch = "P" THEN "p" ELSE ch

\* str.lower()
Lower(text) == [k \in 1..Len(text) |-> LowerChar(text[k])]

\* sub in text
Contains(sub, text) ==
    \E i \in 0..(Len(text) - Len(sub)) : SubSeq(text, i + 1, i + Len(sub)) = sub

\* the first n elements of a list
Take(list, n) == SubSeq(list, 1, IF Len(list) < n THEN Len(list) ELSE n)

RECURSIVE Reversed(_)
Reversed(list) ==
    IF list = <<>> THEN <<>> ELSE Append(Reversed(Tail(list)), Head(list))

\* the field names of the two collections
PickupField(kind) == IF kind = "trips" THEN "customerPickupLocationCity" ELSE "fromTxt"
DropField(kind) == IF kind = "trips" THEN "customerDropLocationCity" ELSE "toTxt"

\* a document: its origin and destination city, whether its location lies
\* within the radius of the coordinates of the call, and whether it is what
\* the collection's exclusion names (a partner-onboarded trip, a pending lead)
CollectionDocs ==
    [pickup : {<<"g">>, <<"p">>},
     drop : {<<"g", "p">>, <<"p">>, <<"G">>},
     near : BOOLEAN,
     excluded : BOOLEAN]

\* the collections: up to MaxDocs documents, in order of createdAt
Collections == SeqsUpTo(CollectionDocs, MaxDocs)

\* the calls: both collections, the cities absent, empty or given, with or
\* without coordinates, limit one or the default
SearchCalls ==
    [kind : {"trips", "leads"},
     pickup_city : {None, Some(<<>>), Some(<<"g">>)},
     drop_city : {None, Some(<<"p">>), Some(<<"G">>)},
     pickup_coordinates : {None, Some(LatLng)},
     radius_km : {RadiusKm},
     limit : {1, SearchLimit}]

\* A plausible slip: the exclusion is left out of the query
filter_parts_empty(kind) == <<>>

\* lines 130 and 237: the filter every query of a collection carries
filter_parts(kind) ==
    IF kind = "trips" THEN <<"customerIsOnboardedAsPartner:=false">>
    ELSE <<"status:!=pending">>

\* lines 129-184 and 236-291: the search_params of a call
SearchParams(args) ==
    IF args.pickup_coordinates # None
    THEN [q |-> <<"*">>,
          query_by |-> Some(PickupField(args.kind)),
          geo_filter |-> TRUE,
          filter_parts |-> filter_parts(args.kind),
          infix |-> FALSE,
          sort_by |-> "distance:asc",
          per_page |-> args.limit]
    ELSE IF Truthy(args.pickup_city) /\ Truthy(args.drop_city)
    THEN [q |-> Val(args.pickup_city),
          query_by |-> Some(PickupField(args.kind)),
          geo_filter |-> FALSE,
          filter_parts |-> filter_parts(args.kind),
          infix |-> TRUE,
          sort_by |-> "createdAt:desc",
          per_page |-> args.limit * 2]
    ELSE IF Truthy(args.pickup_city)
    THEN [q |-> Val(args.pickup_city),
          query_by |-> Some(PickupField(args.kind)),
          geo_filter |-> FALSE,
          filter_parts |-> filter_parts(args.kind),
          infix |-> TRUE,
          sort_by |-> "createdAt:desc",
          per_page |-> args.limit]
    ELSE IF Truthy(args.drop_city)
    THEN [q |-> Val(args.drop_city),
          query_by |-> Some(DropField(args.kind)),
          geo_filter |-> FALSE,
          filter_parts |-> filter_parts(args.kind),
          infix |-> TRUE,
          sort_by |-> "createdAt:desc",
          per_page |-> args.limit]
    ELSE [q |-> <<"*">>,
          query_by |-> None,
          geo_filter |-> FALSE,
          filter_parts |-> filter_parts(args.kind),
          infix |-> FALSE,
          sort_by |-> "createdAt:desc",
          per_page |-> args.limit]

\* the value of a named field of a document
FieldOf(doc, field) ==
    IF field \in {"customerPickupLocationCity", "fromTxt"} THEN doc.pickup
    ELSE doc.drop

\* the collaborator's match of a query on a field: the text occurs in the
\* field, letter case aside
QueryMatches(q, value) == Contains(Lower(q), Lower(value))

\* documents.search(search_params): the documents that pass the query and the
\* filter, in the order asked for, one page of them
documents_search(docs, params) ==
    LET passes(doc) ==
            /\ (params.geo_filter => doc.near)
            /\ (params.filter_parts # <<>> => ~doc.excluded)
            /\ (params.q # <<"*">>
                   => QueryMatches(params.q, FieldOf(doc, Val(params.query_by))))
        ordered == IF params.sort_by = "createdAt:desc" THEN Reversed(docs) ELSE docs
    IN  Take(SelectSeq(ordered, passes), params.per_page)

\* A plausible slip: the loop does not stop at limit
KeptHitsUncut(args, hits) ==
    LET keeps(doc) ==
            (Truthy(args.pickup_city) /\ Truthy(args.drop_city))
                => Contains(Lower(Val(args.drop_city)), Lower(doc.drop))
    IN  SelectSeq(hits, keeps)

\* lines 190-204 and 297-311: the documents kept from the hits
KeptHits(args, hits) ==
    LET keeps(doc) ==
            (Truthy(args.pickup_city) /\ Truthy(args.drop_city))
                => Contains(Lower(Val(args.drop_city)), Lower(doc.drop))
    IN  Take(SelectSeq(hits, keeps), args.limit)

\* A plausible slip: the hits are returned without the test of the destination
search_documents_unfiltered(args, docs, raises) ==
    IF raises THEN <<>>
    ELSE Take(documents_search(docs, SearchParams(args)), args.limit)

\* search_trips / search_leads: the list returned, [] when anything raised
search_documents(args, docs, raises) ==
    IF raises THEN <<>>
    ELSE KeptHits(args, documents_search(docs, SearchParams(args)))

InitSearch ==
    /\ MergeUnused
    /\ PairUnused
    /\ LoadUnused
    /\ CombineUnused
    /\ Idle
    /\ AudioUnused
    /\ SessionsUnused
    /\ EndpointsUnused
    /\ CacheUnused
    /\ search_args \in SearchCalls
    /\ collection \in Collections
    /\ search_params = None
    /\ search_returned = <<>>
    /\ search_pc = "input"

\* the call of search_trips or search_leads
CallSearch ==
    /\ search_pc = "input"
    /\ \E raises \in BOOLEAN :
          search_returned' = search_documents(search_args, collection, raises)
    /\ search_params' = Some(SearchParams(search_args))
    /\ search_pc' = "done"
    /\ UNCHANGED <<search_args, collection>>
    /\ UNCHANGED restOfSearch

NextSearch == CallSearch

SpecSearch == InitSearch /\ [][NextSearch]_vars

----------------------------------------------------------------------------
(* utils/merge_utils.py: combine_trips_and_leads *)

\* a trip or lead document: its id, and createdAt when it has one
DutyDocs == [id : DocIds, createdAt : {None, Some(1), Some(2)}]

\* normalize_trip_to_duty: the fields are copied with .get, None when absent
normalize_trip_to_duty(trip) ==
    [id |-> trip.id, type |-> "trip", created_at |-> trip.createdAt]

\* normalize_lead_to_duty
normalize_lead_to_duty(lead) ==
    [id |-> lead.id, type |-> "lead", created_at |-> lead.createdAt]

\* x.get("created_at", 0): the key is always there, so the default is not used
SortKey(duty) == duty.created_at

\* the comparison list.sort makes of two keys raises TypeError when one is None
Comparable(duties) ==
    Len(duties) < 2 \/ \A k \in 1..Len(duties) : SortKey(duties[k]) # None

\* duty is put into a list sorted newest first, after the duties of equal key
RECURSIVE InsertNewestFirst(_, _)
InsertNewestFirst(sorted, duty) ==
    IF sorted = <<>> THEN <<duty>>
    ELSE IF Val(SortKey(Head(sorted))) >= Val(SortKey(duty))
    THEN <<Head(sorted)>> \o InsertNewestFirst(Tail(sorted), duty)
    ELSE <<duty>> \o sorted

\* duties.sort(key=..., reverse=True): stable, newest first
RECURSIVE SortedNewestFirst(_)
SortedNewestFirst(duties) ==
    IF Len(duties) < 2 THEN duties
    ELSE InsertNewestFirst(SortedNewestFirst(SubSeq(duties, 1, Len(duties) - 1)),
                           duties[Len(duties)])

\* combine_trips_and_leads: the list returned, or the TypeError of the sort
combine_trips_and_leads(trips, leads) ==
    LET duties == [k \in 1..Len(trips) |-> normalize_trip_to_duty(trips[k])]
                    \o [k \in 1..Len(leads) |-> normalize_lead_to_duty(leads[k])]
    IN  IF Comparable(duties)
        THEN [raised |-> FALSE, duties |-> SortedNewestFirst(duties)]
        ELSE [raised |-> TRUE, duties |-> <<>>]

InitCombine ==
    /\ MergeUnused
    /\ PairUnused
    /\ LoadUnused
    /\ Idle
    /\ AudioUnused
    /\ SessionsUnused
    /\ EndpointsUnused
    /\ CacheUnused
    /\ SearchUnused
    /\ combine_trips \in SeqsUpTo(DutyDocs, MaxDuties)
    /\ combine_leads \in SeqsUpTo(DutyDocs, MaxDuties)
    /\ combine_result = None
    /\ combine_pc = "input"

\* the call of combine_trips_and_leads
CallCombine ==
    /\ combine_pc = "input"
    /\ combine_result' = Some(combine_trips_and_leads(combine_trips, combine_leads))
    /\ combine_pc' = "done"
    /\ UNCHANGED <<combine_trips, combine_leads>>
    /\ UNCHANGED restOfCombine

NextCombine == CallCombine

SpecCombine == InitCombine /\ [][NextCombine]_vars

----------------------------------------------------------------------------
(* services/audio_config_service.py: __init__, _load_config, reload *)

\* self._config = {}
EmptyConfig == <<>>

\* the mappings a configuration file may hold
LoadableConfigs == {AsConfig(f) : f \in AudioConfigsFor("entry")} \cup {DeployedConfig}

\* what the file is when it is not a JSON object
FileKinds ==
    {"missing", "unreadable", "not_json", "json_null", "json_number",
     "json_string", "json_array"}

\* the configuration file: missing, unreadable, not JSON, or a JSON value
ConfigFiles ==
    {[kind |-> k, items |-> EmptyConfig] : k \in FileKinds}
        \cup {[kind |-> "json_object", items |-> c] : c \in LoadableConfigs}

\* len(self._config) raises TypeError for a number and for null
HasLen(file) == file.kind \in {"json_string", "json_array", "json_object"}

\* self._config.items() raises AttributeError for everything but a mapping
HasItems(file) == file.kind = "json_object"

\* A plausible slip: a failed load logs the error and keeps what was loaded
\* before
_load_config_keeping(held, file) ==
    IF file.kind = "json_object"
    THEN [config |-> file.items, raised |-> FALSE]
    ELSE [config |-> held, raised |-> FALSE]

\* _load_config(self) on a service holding held: the new self._config, and
\* whether an exception leaves the method
_load_config(held, file) ==
    IF file.kind = "missing"
    THEN [config |-> EmptyConfig, raised |-> FALSE]
    ELSE IF file.kind = "unreadable"
    THEN \* open raises OSError: except Exception
         [config |-> EmptyConfig, raised |-> FALSE]
    ELSE IF file.kind = "not_json"
    THEN \* json.load raises JSONDecodeError
         [config |-> EmptyConfig, raised |-> FALSE]
    ELSE IF ~HasLen(file) \/ ~HasItems(file)
    THEN \* the logging after json.load raises: except Exception
         [config |-> EmptyConfig, raised |-> FALSE]
    ELSE [config |-> file.items, raised |-> FALSE]

InitLoad ==
    /\ MergeUnused
    /\ PairUnused
    /\ Idle
    /\ AudioUnused
    /\ SessionsUnused
    /\ EndpointsUnused
    /\ CacheUnused
    /\ SearchUnused
    /\ CombineUnused
    /\ audio_file \in ConfigFiles
    /\ service_config = None
    /\ config_before = None
    /\ loaded_from = None
    /\ load_kind = "none"
    /\ load_raised = FALSE

\* AudioConfigService(config_path): self._config = {}, then _load_config()
Construct ==
    /\ load_kind = "none"
    /\ LET loaded == _load_config(EmptyConfig, audio_file)
       IN  /\ service_config' = Some(loaded.config)
           /\ load_raised' = loaded.raised
    /\ config_before' = Some(EmptyConfig)
    /\ loaded_from' = Some(audio_file)
    /\ load_kind' = "construct"
    /\ UNCHANGED audio_file
    /\ UNCHANGED restOfLoad

\* the file is replaced, removed or made unreadable
FileChanges ==
    /\ \E file \in ConfigFiles :
          /\ file # audio_file
          /\ audio_file' = file
    /\ UNCHANGED <<service_config, config_before, loaded_from, load_kind, load_raised>>
    /\ UNCHANGED restOfLoad

\* reload()
Reload ==
    /\ load_kind # "none"
    /\ ~load_raised
    /\ LET loaded == _load_config(Val(service_config), audio_file)
       IN  /\ service_config' = Some(loaded.config)
           /\ load_raised' = loaded.raised
    /\ config_before' = service_config
    /\ loaded_from' = Some(audio_file)
    /\ load_kind' = "reload"
    /\ UNCHANGED audio_file
    /\ UNCHANGED restOfLoad

NextLoad ==
    \/ Construct
    \/ FileChanges
    \/ Reload

SpecLoad == InitLoad /\ [][NextLoad]_vars

----------------------------------------------------------------------------
(* SpecPair: merge_and_deduplicate on two batches, in both orders, and on one
   batch alone and with itself *)

\* the batches: lists of up to MaxBatchLen records
Batches == SeqsUpTo(Records, MaxBatchLen)

\* the four calls merge_and_deduplicate([A, B]), ([B, A]), ([B]) and ([B, B])
PairCalls(A, B) ==
    [ab |-> merge_and_deduplicate(<<ListBatch(A), ListBatch(B)>>),
     ba |-> merge_and_deduplicate(<<ListBatch(B), ListBatch(A)>>),
     b |-> merge_and_deduplicate(<<ListBatch(B)>>),
     bb |-> merge_and_deduplicate(<<ListBatch(B), ListBatch(B)>>)]

InitPair ==
    /\ MergeUnused
    /\ Idle
    /\ AudioUnused
    /\ SessionsUnused
    /\ EndpointsUnused
    /\ CacheUnused
    /\ SearchUnused
    /\ CombineUnused
    /\ LoadUnused
    /\ batch_a \in Batches
    /\ batch_b \in Batches
    /\ pair_merged = None
    /\ pair_pc = "input"

\* the four calls are made
CallMergePair ==
    /\ pair_pc = "input"
    /\ pair_merged' = Some(PairCalls(batch_a, batch_b))
    /\ pair_pc' = "done"
    /\ UNCHANGED <<batch_a, batch_b>>
    /\ UNCHANGED restOfPair

NextPair == CallMergePair

SpecPair == InitPair /\ [][NextPair]_vars

----------------------------------------------------------------------------
(* C1, C2: merge_and_deduplicate *)

\* the places <<batch, item>> of the records of a list of batches
Places(lists) ==
    {p \in (1..Len(lists)) \X (1..TotalRecords(lists)) :
        lists[p[1]].isList /\ p[2] <= Len(lists[p[1]].items)}

At(lists, p) == lists[p[1]].items[p[2]]

\* place p comes before place q in list order
Before(p, q) == p[1] < q[1] \/ (p[1] = q[1] /\ p[2] < q[2])

\* the non-empty ids that occur in a list of batches
IdsOf(lists) == {At(lists, p).id : p \in {q \in Places(lists) : TruthyId(At(lists, q).id)}}

\* the record at the last place of id x
LastRecord(lists, x) ==
    LET ps == {p \in Places(lists) : At(lists, p).id = x}
        last == CHOOSE p \in ps : \A q \in ps : ~Before(p, q)
    IN At(lists, last)

\* C1: the merged list holds exactly one record per distinct non-empty id of
\* the batches, and it is the record at the last place of that id (last batch
\* in list order, last occurrence inside that batch).
C1_OnePerIdLastWins ==
    m_pc = "done" =>
        /\ \A k \in 1..Len(merged) : merged[k].id \in IdsOf(results_lists)
        /\ \A x \in IdsOf(results_lists) :
              /\ Cardinality({k \in 1..Len(merged) : merged[k].id = x}) = 1
              /\ \A k \in 1..Len(merged) :
                    merged[k].id = x => merged[k] = LastRecord(results_lists, x)

\* an id held by both batches, twice by the second with different payloads
C1_Witness ==
    /\ m_pc = "done"
    /\ Len(results_lists) = 2
    /\ results_lists[1].isList /\ results_lists[2].isList
    /\ Len(results_lists[1].items) = 1 /\ Len(results_lists[2].items) = 2
    /\ TruthyId(results_lists[1].items[1].id)
    /\ results_lists[2].items[1].id = results_lists[1].items[1].id
    /\ results_lists[2].items[2].id = results_lists[1].items[1].id
    /\ results_lists[2].items[1].payload # results_lists[2].items[2].payload
    /\ results_lists[1].items[1].payload # results_lists[2].items[2].payload
    /\ merged = <<results_lists[2].items[2]>>

\* a list of batches without its records that have no id
WithoutIdless(lists) ==
    [i \in 1..Len(lists) |->
        [lists[i] EXCEPT !.items = SelectSeq(@, LAMBDA r : TruthyId(r.id))]]

\* C2: no record without an id (absent or empty) is in the merged list, and
\* the merged list is the one the same batches give once those records are
\* taken out of them.
C2_IdlessDropped ==
    m_pc = "done" =>
        /\ \A k \in 1..Len(merged) : TruthyId(merged[k].id)
        /\ merged = merge_and_deduplicate(WithoutIdless(results_lists))

\* a batch with an id-less record between two records that are merged
C2_Witness ==
    /\ m_pc = "done"
    /\ \E i \in 1..Len(results_lists) :
          /\ results_lists[i].isList
          /\ Len(results_lists[i].items) = 3
          /\ TruthyId(results_lists[i].items[1].id)
          /\ ~TruthyId(results_lists[i].items[2].id)
          /\ TruthyId(results_lists[i].items[3].id)
          /\ results_lists[i].items[3].id # results_lists[i].items[1].id
          /\ merged = <<results_lists[i].items[1], results_lists[i].items[3]>>

----------------------------------------------------------------------------
(* C3 .. C10: _process_intent *)

\* what search task i returned; [] for a task that was not issued
Returned(i) ==
    IF i <= Len(search_tasks) THEN Val(search_tasks[i].returned) ELSE <<>>

\* the searches of the request were issued and the response is built
Searched == pc = "done" /\ search_tasks # <<>>

\* the ids of a list of documents
DocIdsIn(docs) == {docs[k].id : k \in 1..Len(docs)}

\* list is the merge of what the text task and the geo task returned, and a
\* document the geo task returned is in it as the geo task returned it
MergedByPosition(list, text, geo) ==
    /\ list = merge_and_deduplicate(<<ListBatch(Returned(text)),
                                      ListBatch(Returned(geo))>>)
    /\ \A k \in 1..Len(list) :
          list[k].id \in DocIdsIn(Returned(geo)) =>
              \E j \in 1..Len(Returned(geo)) : list[k] = Returned(geo)[j]

\* C3: whatever the order in which the search tasks complete, the merged
\* trips are merge([trips text, trips geo]) and the merged leads are
\* merge([leads text, leads geo]), each task's result being taken at the
\* position the task was issued at; an id found by both modes is there with
\* the geo-mode record.
C3_MergedByIssuePosition ==
    Searched => /\ MergedByPosition(all_trips, 1, 3)
                /\ MergedByPosition(all_leads, 2, 4)

\* the trips geo task completed before the trips text task, both found the
\* same id, and the merged trips hold the geo record
C3_Witness ==
    /\ Searched
    /\ 3 \in completed_early
    /\ Len(Returned(1)) = 1 /\ Len(Returned(3)) = 1
    /\ Returned(1)[1].id = Returned(3)[1].id
    /\ Returned(1) # Returned(3)
    /\ all_trips = Returned(3)

\* the tasks among S that were issued and did not raise
Succeeded(S) == {i \in S : i <= Len(search_tasks) /\ ~search_tasks[i].raised}

\* list is the deduplicated union of the records of the tasks of S that
\* succeeded
UnionOfSucceeded(list, S) ==
    /\ DocIdsIn(list) = UNION {DocIdsIn(Returned(i)) : i \in Succeeded(S)}
    /\ \A k \in 1..Len(list) :
          \E i \in Succeeded(S) :
             \E j \in 1..Len(Returned(i)) : list[k] = Returned(i)[j]
    /\ \A k, l \in 1..Len(list) : list[k].id = list[l].id => k = l

Blank(city) ==
    IF city = None THEN TRUE
    ELSE \A k \in 1..Len(Val(city)) : Val(city)[k] = " "

\* a text that is empty or made of spaces only
AllSpaces(text) == \A k \in 1..Len(text) : text[k] = " "

\* the greeting of the entry state: the short one from the fifth interaction
\* on when it is configured, else the regular one
EntryGreeting ==
    IF Req.interaction_count # None /\ Val(Req.interaction_count) >= 5
       /\ ConfigGet(config, "entry_short") # None
    THEN ConfigGet(config, "entry_short")
    ELSE ConfigGet(config, "entry")

\* no geocoding call, no search call and no analytics event so far
NoDownstreamCall ==
    /\ geocode_calls = <<>>
    /\ search_tasks = <<>>
    /\ background_tasks = <<>>

Foreign(country) == country \notin {None, Some("IN")}

\* C6: when the origin or the destination geocodes to a country code other
\* than IN, the request ends with end / show_end and the india_only asset, no
\* search is issued, and one analytics event with zero trips and zero leads
\* is scheduled; for the destination, whether the origin is absent,
\* unresolved or in the region.
C6_RegionGate ==
    (Foreign(pickup_country) \/ Foreign(drop_country)) =>
        /\ pc = "done"
        /\ response # None
        /\ Val(response).intent = "end"
        /\ Val(response).ui_action = "show_end"
        /\ Val(response).data = None
        /\ Val(response).audio_url = ConfigGet(config, "india_only")
        /\ search_tasks = <<>>
        /\ Len(background_tasks) = 1
        /\ background_tasks[1].trips_count = 0
        /\ background_tasks[1].leads_count = 0

\* the origin is in the region and the destination is not
C6_Witness ==
    /\ pickup_country = Some("IN")
    /\ drop_country = Some("US")
    /\ pc = "done"
    /\ Val(response).intent = "end"
    /\ Val(response).audio_url = Url("india_only")
    /\ Len(background_tasks) = 1

\* the origin was geocoded and no country code came back
PickupUnresolved ==
    /\ intent_result # None
    /\ Truthy(ExtractedParams.from_city)
    /\ Len(geocode_calls) >= 1
    /\ pickup_country = None

\* the destination was geocoded and no country code came back
DropUnresolved ==
    /\ intent_result # None
    /\ Truthy(ExtractedParams.to_city)
    /\ Len(geocode_calls) = (IF Truthy(ExtractedParams.from_city) THEN 2 ELSE 1)
    /\ drop_country = None

\* the request went on as a search: the two text-mode searches ran with the
\* place names, none in geo mode for an unresolved origin, and a non-empty
\* result is the get_duties response
FailOpenSearch ==
    /\ Len(search_tasks) >= 2
    /\ search_tasks[1].args = SearchArgs("trips", ExtractedParams.from_city,
                                         ExtractedParams.to_city, None)
    /\ search_tasks[2].args = SearchArgs("leads", ExtractedParams.from_city,
                                         ExtractedParams.to_city, None)
    /\ PickupUnresolved =>
          \A i \in 1..Len(search_tasks) : ~HasCoordinates(search_tasks[i].args)
    /\ (\E i \in 1..Len(search_tasks) : Returned(i) # <<>>) =>
          /\ response # None
          /\ Val(response).intent = "get_duties"
          /\ Val(response).ui_action = IR.ui_action
          /\ Val(response).data =
                Some(<<<<"trips", all_trips>>, <<"leads", all_leads>>>>)

C9_ChipFirst ==
    (request # None /\ Req.chip_click = Some("find")) =>
        /\ classifier_calls = 0
        /\ intent_result = None
        /\ NoDownstreamCall
        /\ pc \in {"start", "done"}
        /\ pc = "done" =>
              /\ response # None
              /\ Val(response).intent = "generic"
              /\ Val(response).ui_action = "none"
              /\ Val(response).data = None
              /\ Val(response).audio_url = ConfigGet(config, "find_chip")

\* the chip "find" with an empty text, answered with the chip's asset
C9_Witness ==
    /\ pc = "done"
    /\ Req.chip_click = Some("find")
    /\ Req.text = <<>>
    /\ Val(response).intent = "generic"
    /\ Val(response).audio_url = Url("find_chip")

----------------------------------------------------------------------------
(* C11: the analytics event of a duty search *)

\* the classifier returned get_duties with at least one place specified
DutySearchAttempt ==
    /\ intent_result # None
    /\ IR.intent = "get_duties"
    /\ ~(Blank(ExtractedParams.from_city) /\ Blank(ExtractedParams.to_city))

----------------------------------------------------------------------------
(* C12: log_search and the response *)

\* C12: log_search never raises, whether analytics is disabled, the sink is
\* not initialized or the write fails, and running it leaves the response
\* that was returned as it is, whatever the write does.
C12_AnalyticsNeverAlters ==
    /\ [](\A k \in 1..Len(log_results) : ~log_results[k].raised)
    /\ [][log_results' # log_results =>
             /\ response # None
             /\ response' = response]_vars

\* a successful search whose analytics write failed after the response
C12_Witness ==
    /\ pc = "done"
    /\ Val(response).intent = "get_duties"
    /\ Len(log_results) = 1
    /\ log_results[1].path = "write_failed"
    /\ ~log_results[1].raised

----------------------------------------------------------------------------
(* C13: audio selection *)

\* a non-null entry is configured under key
Configured(cfg, key) == key \in DOMAIN cfg /\ cfg[key] # None

\* the regular entry of the intent, no asset when it is absent or null
RegularAsset ==
    IF Configured(sel_config, Val(sel_intent))
    THEN sel_config[Val(sel_intent)]
    ELSE None

\* the interaction count is present and at least 5, and a non-null short
\* entry is configured
ShortApplies ==
    /\ sel_count # None
    /\ Val(sel_count) >= 5
    /\ Configured(sel_config, Val(sel_intent) \o "_short")

\* C13: audio selection returns the short variant exactly when the
\* interaction count is present, at least 5, and a non-null <intent>_short
\* entry is configured; otherwise the regular entry of the intent, or no asset
\* when that entry is absent or null. Count 4 gives the regular asset, count 5
\* the short one exactly when it is configured.
C13_ShortFromFive ==
    sel_pc = "done" =>
        /\ ShortApplies <=> sel_url = Url(Val(sel_intent) \o "_short")
        /\ ~ShortApplies => sel_url = RegularAsset
        /\ sel_count = Some(4) => sel_url = RegularAsset
        /\ sel_count = Some(5) =>
              IF Configured(sel_config, Val(sel_intent) \o "_short")
              THEN sel_url = sel_config[Val(sel_intent) \o "_short"]
              ELSE sel_url = RegularAsset

\* count 5 with both entries configured: the short asset is returned
C13_Witness ==
    /\ sel_pc = "done"
    /\ sel_count = Some(5)
    /\ sel_intent = Some("cng_pumps")
    /\ Configured(sel_config, "cng_pumps")
    /\ Configured(sel_config, "cng_pumps_short")
    /\ sel_url = Url("cng_pumps_short")

----------------------------------------------------------------------------
(* C14 .. C20: the classifier's session store *)

\* call c returns in this step
Returns(c) ==
    /\ c \in 1..Len(calls)
    /\ calls[c].state = "awaiting"
    /\ calls'[c].state = "done"

\* the reply call c got
ReplyOf(call) == Val(call.reply)

\* the reply text is not a structured object: not JSON, or JSON of another shape
NotAnObject(reply) == reply.kind \in {"not_json", "json_not_object"}

\* the call failed: no reply, or one that does not give an IntentResult
Failed(reply) == ~(reply.kind = "object" /\ ValidTags(reply))

\* C14: when the reply cannot be parsed as a structured object, the call
\* returns the generic intent with UI action none and no data, and the store's
\* history for its session id is what it was before the call.
C14_UnparsedLeavesHistory ==
    [][\A c \in 1..Len(calls) :
          (Returns(c) /\ NotAnObject(ReplyOf(calls'[c])))
              => /\ calls'[c].result = Some(FallbackResult)
                 /\ (Supplied(calls[c].session_id)
                        => sessions'[Val(calls[c].session_id)]
                             = sessions[Val(calls[c].session_id)])]_vars

\* C15: classify_and_respond never raises: for every failure (no reply, a
\* reply that is not JSON, not an object, or with tags outside the
\* enumerations) the call returns an IntentResult with intent generic and UI
\* action none.
C15_NeverRaises ==
    \A c \in 1..Len(calls) :
        calls[c].state = "done"
            => /\ ~calls[c].raised
               /\ calls[c].result # None
               /\ (Failed(ReplyOf(calls[c]))
                      => /\ Val(calls[c].result).intent = "generic"
                         /\ Val(calls[c].result).ui_action = "none")

\* every kind of failure has happened
C15_Witness ==
    /\ Len(calls) = 2
    /\ calls[1].state = "done"
    /\ calls[2].state = "done"
    /\ ReplyOf(calls[1]).kind = "no_reply"
    /\ ReplyOf(calls[2]).kind = "object"
    /\ Failed(ReplyOf(calls[2]))
    /\ Val(calls[2].result) = FallbackResult

\* json.loads accepted the reply text
JsonParsed(reply) == reply.kind \in {"json_not_object", "object"}

\* C16: when the reply parses and a session id was supplied, the store's entry
\* for that id becomes the new history snapshot, the history sent plus this
\* turn, and no other entry changes; with no session id the call starts from
\* an empty history and leaves the store unchanged.
C16_HistorySnapshot ==
    [][\A c \in 1..Len(calls) :
          Returns(c)
              => /\ (JsonParsed(ReplyOf(calls'[c])) /\ Supplied(calls[c].session_id))
                       => sessions' = [sessions EXCEPT ![Val(calls[c].session_id)] =
                                          Some(calls[c].history \o <<c>>)]
                 /\ ~Supplied(calls[c].session_id)
                       => /\ calls[c].history = <<>>
                          /\ sessions' = sessions]_vars

\* a turn with a session id was stored, then a turn without one left it alone
C16_Witness ==
    /\ Len(calls) = 2
    /\ calls[1].state = "done"
    /\ calls[2].state = "done"
    /\ calls[1].session_id = Some("s1")
    /\ calls[2].session_id = None
    /\ calls[1].path = "ok"
    /\ calls[2].path = "ok"
    /\ finished = <<1, 2>>
    /\ sessions = [sid \in SessionIds |-> IF sid = "s1" THEN Some(<<1>>) ELSE None]

\* this step is clear_session(sid)
ClearStep(sid) ==
    /\ Len(cleared') = Len(cleared) + 1
    /\ cleared'[Len(cleared')].session_id = sid

\* this step is the return of a classifier call that carries sid
TurnStep(sid) ==
    \E c \in 1..Len(calls) : Returns(c) /\ calls[c].session_id = Some(sid)

\* C17: the history of a session id is created by a classifier turn that
\* carries the id, replaced by each later turn for the id, and removed only by
\* clear_session for the id: an entry stays in the store until that clear, and
\* operations on other session ids never create, change or remove it.
C17_EntryLifecycle ==
    [][\A sid \in SessionIds :
          /\ (sessions[sid] # None /\ sessions'[sid] = None) => ClearStep(sid)
          /\ (sessions[sid] = None /\ sessions'[sid] # None) => TurnStep(sid)
          /\ sessions'[sid] # sessions[sid] => (ClearStep(sid) \/ TurnStep(sid))
          /\ (\A c \in 1..Len(calls) :
                (/\ Returns(c)
                 /\ calls[c].session_id = Some(sid)
                 /\ calls'[c].path = "ok")
                    => /\ sessions'[sid] # None
                       /\ Val(sessions'[sid])[Len(Val(sessions'[sid]))] = c)]_vars

\* the entry of s1 outlived a turn for s2 and the clear of s2
C17_Witness ==
    /\ Len(calls) = 2
    /\ calls[1].session_id = Some("s1")
    /\ calls[2].session_id = Some("s2")
    /\ finished = <<1, 2>>
    /\ Len(cleared) = 1
    /\ cleared[1].session_id = "s2"
    /\ removed["s2"] = {2}
    /\ sessions["s1"] = Some(<<1>>)
    /\ sessions["s2"] = None

\* C18: clear_session(id) succeeds whether or not a history is stored for id;
\* afterwards none is stored for id, clearing once more leaves the store
\* unchanged, and the histories of all other ids are untouched.
C18_ClearIdempotent ==
    [][\A sid \in SessionIds :
          ClearStep(sid)
              => /\ ~cleared'[Len(cleared')].raised
                 /\ sessions'[sid] = None
                 /\ (\A other \in SessionIds \ {sid} :
                        sessions'[other] = sessions[other])
                 /\ clear_session(sessions', sid)
                        = [store |-> sessions', raised |-> FALSE]]_vars

\* s1 was cleared while it and s2 held a history
C18_Witness ==
    /\ Len(cleared) = 1
    /\ cleared[1] = [session_id |-> "s1", raised |-> FALSE]
    /\ removed["s1"] = {1}
    /\ sessions["s1"] = None
    /\ sessions["s2"] = Some(<<2>>)

\* the calls that carry sid
CallsFor(sid) == {c \in 1..Len(calls) : calls[c].session_id = Some(sid)}

\* call c has returned after writing the store
Wrote(c) == calls[c].state = "done" /\ JsonParsed(ReplyOf(calls[c]))

\* of two calls that returned, the one that returned last
LastOf(a, b) ==
    LET at(c) == CHOOSE k \in 1..Len(finished) : finished[k] = c
    IN  IF at(a) < at(b) THEN b ELSE a

\* C19: requests for one session id are not serialized by the store. Two
\* calls for the id that overlap read the same stored history, and when both
\* have returned the stored history holds the turn of the one that wrote last
\* and not the other's; when one ran after the other it holds both turns.
C19_LostUpdate ==
    \A sid \in SessionIds :
        \A a \in 1..Len(calls), b \in 1..Len(calls) :
            (/\ a < b
             /\ CallsFor(sid) = {a, b}
             /\ Wrote(a)
             /\ Wrote(b)
             /\ removed[sid] = {})
                => IF a \in calls[b].concurrent
                   THEN /\ calls[a].history = calls[b].history
                        /\ sessions[sid]
                             = Some(calls[LastOf(a, b)].history \o <<LastOf(a, b)>>)
                        /\ Turns(sessions[sid]) = {LastOf(a, b)}
                   ELSE sessions[sid] = Some(<<a, b>>)

\* two overlapping calls for s1 returned; the turn of call 2 is lost
C19_Witness ==
    /\ Len(calls) = 2
    /\ CallsFor("s1") = {1, 2}
    /\ calls[2].concurrent = {1}
    /\ calls[1].path = "ok"
    /\ calls[2].path = "ok"
    /\ finished = <<2, 1>>
    /\ sessions["s1"] = Some(<<1>>)

\* C20: once clear_session(sid) has returned, no turn that was recorded before
\* the clear is part of the stored history of sid again, also when a call for
\* sid that started before the clear returns after it.
C20_ClearedTurnsStayCleared ==
    \A sid \in SessionIds : Turns(sessions[sid]) \cap removed[sid] = {}

----------------------------------------------------------------------------
(* C21, C22, C24: the query endpoints *)

\* the bytes the streaming endpoint has sent
Streamed == Joined(stream_chunks)

\* the Response of the request
PipelineResponse == Val(pipeline.response)

\* C21: the streamed output begins with the JSON of the Response the plain
\* endpoint returns, then exactly one newline; the JSON holds no newline, so
\* splitting at the first newline gives back the Response exactly and what
\* follows it is the audio.
C21_MetadataLine ==
    stream_chunks # <<>>
        => /\ FindNewline(model_dump_json(PipelineResponse), 1) = 0
           /\ FindNewline(Streamed, 1) = Len(model_dump_json(PipelineResponse)) + 1
           /\ JsonPart(Streamed) = model_dump_json(PipelineResponse)
           /\ json_loads(JsonPart(Streamed)) = Some(PipelineResponse)
           /\ plain_result # None
                 => json_loads(JsonPart(Streamed)) = Val(plain_result).body
           /\ Streamed = JsonPart(Streamed) \o <<"\n">> \o AudioPart(Streamed)

\* a Response whose text holds a newline and a quote went through both endpoints
C21_Witness ==
    /\ stream_pc = "closed"
    /\ plain_result # None
    /\ ~pipeline.raised
    /\ PipelineResponse.session_id = <<"\n", "\"">>
    /\ json_loads(JsonPart(Streamed)) = Some(PipelineResponse)

\* C22: when the Response carries a direct asset URL, the streamed output ends
\* after the metadata line: the audio trailer is empty.
C22_NoTrailerWithUrl ==
    (/\ ~pipeline.raised
     /\ PipelineResponse.audio_url # None)
        => /\ Len(stream_chunks) <= 1
           /\ stream_chunks # <<>> => AudioPart(Streamed) = <<>>
           /\ stream_pc = "closed"
                 => Streamed = model_dump_json(PipelineResponse) \o <<"\n">>

\* the stream of a Response with a URL has ended
C22_Witness ==
    /\ stream_pc = "closed"
    /\ ~pipeline.raised
    /\ PipelineResponse.audio_url = Some(<<"u">>)
    /\ Len(stream_chunks) = 1

\* C24: an exception that escapes the pipeline becomes, in either endpoint,
\* the one internal-error answer (status 500, fixed detail) that holds nothing
\* of the exception's message; no Response and no part of a stream is sent.
C24_GenericInternalError ==
    pipeline # None /\ pipeline.raised
        => /\ plain_result # None
                 => /\ Val(plain_result) = InternalError
                    /\ Val(plain_result).detail # pipeline.message
                    /\ Val(plain_result).body = None
           /\ stream_result # None
                 => /\ Val(stream_result) = InternalError
                    /\ Val(stream_result).detail # pipeline.message
                    /\ stream_pc = "closed"
           /\ stream_chunks = <<>>

\* both endpoints answered a request whose pipeline raised
C24_Witness ==
    /\ pipeline.raised
    /\ pipeline.message = "secret"
    /\ plain_result = Some(InternalError)
    /\ stream_result = Some(InternalError)
    /\ stream_pc = "closed"

----------------------------------------------------------------------------
(* C23: GET /audio/{cache_key} *)

\* this step is a GET /audio/{cache_key}
Fetches == cache_ops' = cache_ops + 1 /\ fetched' # fetched

\* the chunks hold, in order, exactly the bytes of audio_data
ExactlyTheBytes(chunks, audio_data) ==
    /\ Len(chunks) >= 1
    /\ chunks[1].lo = 0
    /\ chunks[Len(chunks)].hi = audio_data.len
    /\ (\A k \in 1..Len(chunks) :
           chunks[k].id = audio_data.id /\ chunks[k].lo < chunks[k].hi)
    /\ (\A n \in 1..(Len(chunks) - 1) : chunks[n].hi = chunks[n + 1].lo)

NotFound(answer) == answer.status = "404" /\ answer.chunks = <<>>

\* C23, as stated: not-found for every key for which no set has succeeded and
\* when the read fails; otherwise the stream is, in order, exactly the bytes of
\* the most recent successful set for the key.
C23_AsStated ==
    [][Fetches
          => LET f == Val(fetched')
             IN  IF f.read_failed \/ last_set[f.cache_key] = None
                 THEN NotFound(f)
                 ELSE /\ f.status = "200"
                      /\ ExactlyTheBytes(f.chunks, Val(last_set[f.cache_key]))]_vars

\* C23, amended: not-found also when the most recent successful set has
\* expired or stored no bytes; otherwise the stream is, in order, exactly the
\* bytes of the most recent successful set for the key.
C23_LiveEntry ==
    [][Fetches
          => LET f == Val(fetched')
             IN  IF f.read_failed \/ last_set[f.cache_key] = None
                 THEN NotFound(f)
                 ELSE IF expired[f.cache_key] \/ Val(last_set[f.cache_key]).len = 0
                 THEN NotFound(f)
                 ELSE /\ f.status = "200"
                      /\ ExactlyTheBytes(f.chunks, Val(last_set[f.cache_key]))]_vars

\* a recording of more than one chunk was set and then fetched
C23_Witness ==
    /\ fetched # None
    /\ Val(fetched).status = "200"
    /\ Len(Val(fetched).chunks) = 2
    /\ last_set[Val(fetched).cache_key] = Some([id |-> "x", len |-> chunk_size + 1])
    /\ ~expired[Val(fetched).cache_key]

----------------------------------------------------------------------------
(* C25, C26: search_trips and search_leads *)

\* the documents of a list
DocsOf(list) == {list[k] : k \in 1..Len(list)}

\* the destination field of doc contains the city, letter case aside
DropContains(doc, city) == Contains(Lower(Val(city)), Lower(doc.drop))

\* C25: in geo mode with a destination city supplied, every record returned
\* has a destination field that matches the destination city, and lies within
\* the radius around the origin coordinates.
C25_GeoFiltersDestination ==
    (/\ search_pc = "done"
     /\ search_args.pickup_coordinates # None
     /\ Truthy(search_args.drop_city))
        => \A doc \in DocsOf(search_returned) :
              doc.near /\ DropContains(doc, search_args.drop_city)

\* C26: in text mode, with both cities a search returns only records that
\* matched the origin on the origin field and whose destination field contains
\* the destination, letter case aside; with one city it queries that city's
\* field alone; with neither it issues an unfiltered query ordered by recency
\* (no city restricts it; the exclusion of C36 is on every query).
C26_TextModePolicy ==
    (search_pc = "done" /\ search_args.pickup_coordinates = None)
        => LET params == Val(search_params)
               hits == documents_search(collection, params)
               both == Truthy(search_args.pickup_city) /\ Truthy(search_args.drop_city)
           IN  /\ ~params.geo_filter
               /\ params.sort_by = "createdAt:desc"
               /\ both
                    => /\ params.q = Val(search_args.pickup_city)
                       /\ params.query_by = Some(PickupField(search_args.kind))
                       /\ \A doc \in DocsOf(search_returned) :
                             /\ QueryMatches(Val(search_args.pickup_city), doc.pickup)
                             /\ DropContains(doc, search_args.drop_city)
               /\ (Truthy(search_args.pickup_city) /\ ~Truthy(search_args.drop_city))
                    => /\ params.q = Val(search_args.pickup_city)
                       /\ params.query_by = Some(PickupField(search_args.kind))
                       /\ search_returned \in {<<>>, Take(hits, search_args.limit)}
               /\ (~Truthy(search_args.pickup_city) /\ Truthy(search_args.drop_city))
                    => /\ params.q = Val(search_args.drop_city)
                       /\ params.query_by = Some(DropField(search_args.kind))
                       /\ search_returned \in {<<>>, Take(hits, search_args.limit)}
               /\ (~Truthy(search_args.pickup_city) /\ ~Truthy(search_args.drop_city))
                    => /\ params.q = <<"*">>
                       /\ params.query_by = None
                       /\ search_returned
                            \in {<<>>, Take(SelectSeq(Reversed(collection),
                                                     LAMBDA doc : ~doc.excluded),
                                            search_args.limit)}

\* a text search for both cities kept the one hit whose destination matches
C26_Witness ==
    /\ search_pc = "done"
    /\ search_args.pickup_coordinates = None
    /\ search_args.pickup_city = Some(<<"g">>)
    /\ search_args.drop_city = Some(<<"G">>)
    /\ Len(collection) = 2
    /\ collection[1].pickup = <<"g">>
    /\ collection[2].pickup = <<"g">>
    /\ collection[2].drop = <<"p">>
    /\ Len(search_returned) = 1
    /\ search_returned[1].drop = <<"g", "p">>

----------------------------------------------------------------------------
(* C27, C28: used_geo and blank place names *)

\* the origin was geocoded to coordinates inside the target country
OriginInRegion == pickup_country = Some(TargetCountry) /\ pickup_coordinates # None

\* the searches issued are the two text searches, then the two geo searches
\* when geo holds
SearchesIssued(geo) ==
    /\ Len(search_tasks) = (IF geo THEN 4 ELSE 2)
    /\ \A i \in 1..Len(search_tasks) : HasCoordinates(search_tasks[i].args) <=> i > 2

\* used_geo, wherever it is held or reported, says that the origin was
\* geocoded inside the target country; resolving the destination has no part
\* in it
UsedGeoIsOriginInRegion ==
    /\ used_geo <=> OriginInRegion
    /\ \A k \in 1..Len(background_tasks) :
          background_tasks[k].used_geo <=> OriginInRegion
    /\ (response # None /\ Val(response).query # None)
          => (Val(Val(response).query).used_geo <=> OriginInRegion)

WhitespaceOnly(city) == Truthy(city) /\ AllSpaces(Val(city))

\* C28: a place name that is whitespace-only is treated as unspecified by the
\* geo gate: when the other place is specified no geocoding call is made for
\* it, it yields no coordinates and no country, and the request goes on to the
\* searches as if the place had not been given.
C28_BlankIsUnspecified ==
    (intent_result # None /\ IR.intent = "get_duties")
        => /\ (WhitespaceOnly(ExtractedParams.from_city)
                  /\ ~Blank(ExtractedParams.to_city))
                 => /\ \A k \in 1..Len(geocode_calls) :
                          geocode_calls[k] # ExtractedParams.from_city
                    /\ pickup_coordinates = None
                    /\ pickup_country = None
           /\ (WhitespaceOnly(ExtractedParams.to_city)
                  /\ ~Blank(ExtractedParams.from_city))
                 => /\ \A k \in 1..Len(geocode_calls) :
                          geocode_calls[k] # ExtractedParams.to_city
                    /\ drop_country = None

----------------------------------------------------------------------------
(* C29: combine_trips_and_leads *)

\* newest first, the duties without a timestamp after all that have one
NewestFirstMissingLast(duties) ==
    \A i \in 1..Len(duties), j \in 1..Len(duties) :
        i < j => \/ duties[j].created_at = None
                 \/ /\ duties[i].created_at # None
                    /\ Val(duties[i].created_at) >= Val(duties[j].created_at)

\* C29: combine_trips_and_leads returns one duty per trip and per lead, newest
\* first, every duty without a timestamp after all those that have one, and
\* completes without error for any mix of present and missing timestamps.
C29_CombineTotal ==
    combine_pc = "done"
        => /\ ~Val(combine_result).raised
           /\ Len(Val(combine_result).duties) = Len(combine_trips) + Len(combine_leads)
           /\ NewestFirstMissingLast(Val(combine_result).duties)

----------------------------------------------------------------------------
(* C30: a configuration file that cannot be used *)

\* get_url finds no asset, whatever the intent and the interaction count
NoAssetAtAll(held) ==
    \A intent \in IntentTypes :
        \A n \in {None} \cup {Some(k) : k \in 0..MaxInteractionCount} :
            get_url(held, intent, n) = None

\* C30: after the configuration was loaded or reloaded from a file that is
\* missing, unreadable, not valid JSON or not a mapping, get_url returns no
\* asset for every intent and every interaction count, and no exception
\* escaped construction or reload.
C30_UnusableFileMeansNoAsset ==
    (loaded_from # None /\ Val(loaded_from).kind \in FileKinds)
        => /\ ~load_raised
           /\ NoAssetAtAll(Val(service_config))

\* reached: a service that held assets has reloaded from a file holding a
\* JSON array
C30_Witness ==
    /\ load_kind = "reload"
    /\ Val(loaded_from).kind = "json_array"
    /\ ~NoAssetAtAll(Val(config_before))
    /\ NoAssetAtAll(Val(service_config))

----------------------------------------------------------------------------
(* C31: the intents other than get_duties *)

\* the intents that look something up, and the key of their empty list
LookupKey(intent) ==
    CASE intent \in {"cng_pumps", "petrol_pumps", "parking", "police_station"}
            -> "stations"
      [] intent = "nearby_drivers" -> "drivers"
      [] intent = "towing" -> "services"
      [] intent = "toilets" -> "locations"
      [] intent = "taxi_stands" -> "stands"
      [] intent \in {"auto_parts", "car_repair"} -> "shops"
      [] intent = "hospital" -> "hospitals"
      [] OTHER -> ""

\* the payload of an intent that holds no record: one empty list under the
\* intent's key for a lookup intent, an empty mapping for end, none otherwise
EmptyPayload(intent, data) ==
    IF LookupKey(intent) # "" THEN data = Some(<<<<LookupKey(intent), <<>>>>>>)
    ELSE IF intent = "end" THEN data = Some(<<>>)
    ELSE data = None

\* the request was classified as something other than get_duties and answered
OtherIntentAnswered ==
    /\ pc = "done"
    /\ intent_result # None
    /\ IR.intent # "get_duties"

----------------------------------------------------------------------------
(* C32, C33: merging a batch with itself, and two batches in both orders *)

\* the ids of a merged list
MergedIds(list) == {list[k].id : k \in 1..Len(list)}

\* the records a merged list holds under id x
RecordsUnder(list, x) == {list[k] : k \in {j \in 1..Len(list) : list[j].id = x}}

\* the last record of a batch under id x
LastIn(items, x) ==
    items[CHOOSE k \in 1..Len(items) :
              /\ items[k].id = x
              /\ \A j \in (k + 1)..Len(items) : items[j].id # x]

\* the non-empty ids of a batch
BatchIds(items) == {items[k].id : k \in {j \in 1..Len(items) : TruthyId(items[j].id)}}

PairResult == Val(pair_merged)

\* C32: merge([B]) and merge([B, B]) contain the same set of ids and the same
\* surviving record for every id: merging a batch with itself adds, removes
\* and changes nothing.
C32_MergeWithItself ==
    pair_pc = "done"
        => /\ MergedIds(PairResult.bb) = MergedIds(PairResult.b)
           /\ \A x \in MergedIds(PairResult.b) :
                 RecordsUnder(PairResult.bb, x) = RecordsUnder(PairResult.b, x)
           /\ Len(PairResult.bb) = Len(PairResult.b)

\* reached: B holds one id twice, with different payloads
C32_Witness ==
    /\ pair_pc = "done"
    /\ \E x \in BatchIds(batch_b) :
          /\ Cardinality({k \in 1..Len(batch_b) : batch_b[k].id = x}) = 2
          /\ batch_b[1].payload # batch_b[2].payload
    /\ PairResult.bb = <<batch_b[2]>>
    /\ PairResult.b = <<batch_b[2]>>

\* C33: for two batches A and B that hold different records under a shared
\* id, merge([A, B]) keeps B's record and merge([B, A]) keeps A's record for
\* that id, while both calls return the same set of ids.
C33_OrderDecidesWinner ==
    pair_pc = "done"
        => /\ MergedIds(PairResult.ab) = MergedIds(PairResult.ba)
           /\ \A x \in BatchIds(batch_a) \cap BatchIds(batch_b) :
                 /\ RecordsUnder(PairResult.ab, x) = {LastIn(batch_b, x)}
                 /\ RecordsUnder(PairResult.ba, x) = {LastIn(batch_a, x)}

\* reached: A and B share an id under different records, a second id is in
\* one of them only, and the two calls differ in the record kept
C33_Witness ==
    /\ pair_pc = "done"
    /\ Len(batch_a) = 2 /\ Len(batch_b) = 2
    /\ \E x \in BatchIds(batch_a) \cap BatchIds(batch_b) :
          /\ LastIn(batch_a, x) # LastIn(batch_b, x)
          /\ RecordsUnder(PairResult.ab, x) # RecordsUnder(PairResult.ba, x)
    /\ Len(PairResult.ab) = 2

----------------------------------------------------------------------------
(* C40: the order of the merged list *)

\* the records of the batches that are lists, in the order the loops visit them
RECURSIVE Visited(_)
Visited(lists) ==
    IF lists = <<>> THEN <<>>
    ELSE (IF Head(lists).isList THEN Head(lists).items ELSE <<>>) \o Visited(Tail(lists))

\* the non-empty ids of a list of records in the order of their first occurrence
RECURSIVE FirstOccurrences(_, _)
FirstOccurrences(seen, items) ==
    IF items = <<>> THEN <<>>
    ELSE IF TruthyId(Head(items).id) /\ Head(items).id \notin seen
    THEN <<Head(items).id>> \o FirstOccurrences(seen \cup {Head(items).id}, Tail(items))
    ELSE FirstOccurrences(seen, Tail(items))

\* C40: merge_and_deduplicate lists the surviving records in the order in
\* which their ids first occur across the batches, also when the surviving
\* record of an id comes from a later batch.
C40_FirstOccurrenceOrder ==
    m_pc = "done"
        => [k \in 1..Len(merged) |-> merged[k].id]
              = FirstOccurrences({}, Visited(results_lists))

\* reached: the first id of the first batch is held again, under another
\* payload, by the second batch, after a different id; it stays first
C40_Witness ==
    /\ m_pc = "done"
    /\ Len(results_lists) = 2
    /\ results_lists[1].isList /\ results_lists[2].isList
    /\ Len(results_lists[1].items) = 2 /\ Len(results_lists[2].items) = 1
    /\ TruthyId(results_lists[1].items[1].id)
    /\ TruthyId(results_lists[1].items[2].id)
    /\ results_lists[1].items[1].id # results_lists[1].items[2].id
    /\ results_lists[2].items[1].id = results_lists[1].items[1].id
    /\ results_lists[2].items[1].payload # results_lists[1].items[1].payload
    /\ merged = <<results_lists[2].items[1], results_lists[1].items[2]>>

----------------------------------------------------------------------------
(* C34: the session id of a request *)

\* the request came with a session id (an empty string counts as none)
SessionIdSupplied == Req.session_id # None /\ Val(Req.session_id) # ""

\* the ids a request can supply
SuppliedIds == {Val(sid) : sid \in RequestSessionIds \ {None}}

\* v is the request's session id when it supplied one, a generated token
\* otherwise
RequestOrFresh(v) ==
    IF SessionIdSupplied THEN v = Val(Req.session_id)
    ELSE v = Uuid4 /\ v \notin SuppliedIds

\* C34: on every exit path the response carries the request's session id when
\* one was supplied and otherwise a freshly generated token, and that same
\* value is the session id the classifier was called with, the key under which
\* it stores the history of the request.
C34_SessionIdCarried ==
    /\ response # None => RequestOrFresh(Val(response).session_id)
    /\ session_key # None => RequestOrFresh(Val(session_key))
    /\ (classifier_calls > 0) = (session_key # None)

\* reached: a request without session id was classified, searched and answered
\* "no duties"; the response and the classifier call carry the generated token
C34_Witness ==
    /\ pc = "done"
    /\ Req.session_id = None
    /\ search_tasks # <<>>
    /\ Val(response).intent = "end"
    /\ Val(response).session_id = Uuid4
    /\ session_key = Some(Uuid4)

----------------------------------------------------------------------------
(* C35: the page asked for and the number of records returned *)

\* a text search with both cities given
BothCitiesText(args) ==
    /\ args.pickup_coordinates = None
    /\ Truthy(args.pickup_city)
    /\ Truthy(args.drop_city)

\* C35 as stated: each search task asks the search collaborator for a page of
\* at most limit records and returns at most limit records, for every
\* combination of city and coordinate arguments.
C35_AsStated ==
    search_pc = "done"
        => /\ Val(search_params).per_page <= search_args.limit
           /\ Len(search_returned) <= search_args.limit

\* C35: each search task returns at most limit records; it asks the
\* collaborator for a page of limit records, except in a text search with both
\* cities given, where it asks for 2 * limit.
C35_PageAndResultCap ==
    search_pc = "done"
        => /\ Val(search_params).per_page =
                 (IF BothCitiesText(search_args) THEN 2 * search_args.limit
                  ELSE search_args.limit)
           /\ Len(search_returned) <= search_args.limit

\* reached: a text search with both cities and limit 1 asked for a page of
\* two, both documents of the collection pass, one is returned
C35_Witness ==
    /\ search_pc = "done"
    /\ BothCitiesText(search_args)
    /\ search_args.limit = 1
    /\ Val(search_params).per_page = 2
    /\ Len(documents_search(collection, Val(search_params))) = 2
    /\ \A k \in 1..Len(collection) :
          Contains(Lower(Val(search_args.drop_city)), Lower(collection[k].drop))
    /\ Len(search_returned) = 1

----------------------------------------------------------------------------
(* C36: the exclusion every query carries *)

\* the exclusion of a collection: partner-onboarded trips, pending leads
ExclusionOf(kind) ==
    IF kind = "trips" THEN "customerIsOnboardedAsPartner:=false"
    ELSE "status:!=pending"

\* the filter terms of a query
TermsOf(params) == {params.filter_parts[k] : k \in 1..Len(params.filter_parts)}

\* C36: every query that search_trips issues, in text or geo mode and with any
\* combination of cities, carries the filter that excludes partner-onboarded
\* trips, and every query that search_leads issues carries the filter that
\* excludes pending leads; no excluded document is returned.
C36_ExclusionAlwaysOn ==
    search_pc = "done"
        => /\ ExclusionOf(search_args.kind) \in TermsOf(Val(search_params))
           /\ \A k \in 1..Len(search_returned) : ~search_returned[k].excluded

\* reached: a geo search of the leads with a destination city, on a collection
\* whose only nearby documents are one pending lead and one that is not
C36_Witness ==
    /\ search_pc = "done"
    /\ search_args.kind = "leads"
    /\ search_args.pickup_coordinates # None
    /\ search_args.drop_city # None
    /\ Len(collection) = 2
    /\ collection[1].near /\ collection[2].near
    /\ collection[1].excluded /\ ~collection[2].excluded
    /\ search_returned = <<collection[2]>>

----------------------------------------------------------------------------
(* C37: the order of the calls of one request *)

\* the places of the request that are geocoded: the names that are truthy
PlacesToGeocode ==
    (IF Truthy(ExtractedParams.from_city) THEN <<ExtractedParams.from_city>> ELSE <<>>)
        \o (IF Truthy(ExtractedParams.to_city) THEN <<ExtractedParams.to_city>> ELSE <<>>)

\* the destination has been geocoded
DestinationGeocoded ==
    /\ Truthy(ExtractedParams.to_city)
    /\ geocode_calls = PlacesToGeocode

\* a country code that passes the region check: none, or the target country
PassesRegion(country) == country = None \/ country = Some(TargetCountry)

\* C37: within one request the classifier is called at most once and before
\* any geocoding call; the origin is geocoded before the destination; the
\* destination is geocoded only if the origin was not rejected; and no search
\* is issued until both region checks have passed, so a request makes at most
\* two geocoding calls and at most four searches.
C37_CallOrder ==
    /\ classifier_calls <= 1
    /\ geocode_calls # <<>> => classifier_calls = 1
    /\ search_tasks # <<>> => classifier_calls = 1
    /\ Len(geocode_calls) <= 2
    /\ Len(search_tasks) <= 4
    /\ intent_result # None =>
          /\ \E n \in 0..Len(PlacesToGeocode) :
                geocode_calls = SubSeq(PlacesToGeocode, 1, n)
          /\ DestinationGeocoded => PassesRegion(pickup_country)
          /\ search_tasks # <<>> =>
                /\ geocode_calls = PlacesToGeocode
                /\ PassesRegion(pickup_country)
                /\ PassesRegion(drop_country)

\* reached: both places were geocoded, inside the region, and four searches
\* were issued
C37_Witness ==
    /\ classifier_calls = 1
    /\ Len(geocode_calls) = 2
    /\ geocode_calls[1] = ExtractedParams.from_city
    /\ geocode_calls[2] = ExtractedParams.to_city
    /\ geocode_calls[1] # geocode_calls[2]
    /\ Len(search_tasks) = 4

----------------------------------------------------------------------------
(* C38: the session store on the error paths *)

\* C38: whenever classify_and_respond returns through an error path (the
\* generic fallback result with UI action none and no data), the session store
\* is as it was before, also when the reply is a structured object whose
\* intent or UI-action tag is outside the closed enumerations.
C38_ErrorPathsLeaveStore ==
    [][\A c \in 1..Len(calls) :
          (Returns(c) /\ Failed(ReplyOf(calls'[c])))
              => /\ calls'[c].result = Some(FallbackResult)
                 /\ sessions' = sessions]_vars

----------------------------------------------------------------------------
(* C39: the shape of every response *)

\* the value under a key of a data payload (a list of key-value pairs)
DataAt(data, key) ==
    LET k == CHOOSE i \in 1..Len(Val(data)) : Val(data)[i][1] = key
    IN  Val(data)[k][2]

\* the keys of a data payload
DataKeys(data) == {Val(data)[i][1] : i \in 1..Len(Val(data))}

====
